---- MODULE Spec2Model ----
(***************************************************************************)
(* Model of the retrieval-augmented question-answering backend:            *)
(*   - chunkText, RAGService (IndexDocument, RetrieveRelevantChunks,       *)
(*     DeleteDocument) and the Chroma client it drives,                    *)
(*   - DocumentService (Create, Delete) over the relational store,         *)
(*   - QAService.AskStream reading the provider's token stream.            *)
(*                                                                         *)
(* A Go string is a sequence of bytes.  Bytes are drawn from a small       *)
(* alphabet that keeps the structure of UTF-8:                             *)
(*   "a"   an ASCII letter (0x61)                                          *)
(*   "sp"  the ASCII space (0x20), the only whitespace of the alphabet     *)
(*   "c3"  the lead byte of a two-byte character                           *)
(*   "ef"  the lead byte of a three-byte character (EF BF BD is U+FFFD)    *)
(*   "cb"  a continuation byte (0x80..0xBF)                                *)
(* A rune is one of "a", "sp", "e9" (a two-byte character) and "fffd"      *)
(* (U+FFFD, what Go decodes every invalid byte to).                        *)
(***************************************************************************)
EXTENDS Integers, Sequences, FiniteSets, TLC

\* ------------------------------------------------------------------ bounds

\* Longest input string, in bytes, of the chunkText specification.
MaxLen == 4
\* Largest maxLen handed to chunkText in the chunkText specification.
MaxChunkArg == 3
\* Largest number of fragments the chat provider sends before it ends a stream.
MaxFrags == 3
\* The longest result list of a query response and the longest list handed to
\* Client.Add in the client specification.
MaxEntries == 2
\* The number of concurrent callers of Client.EnsureCollection.
MaxCallers == 3
\* The number of concurrent callers of RAGService.IndexDocument.
MaxIndexers == 2

\* -------------------------------------------------------------- variables

VARIABLES
    ragEnabled, \* RAGService.IsEnabled: an embedding credential was configured
    store,      \* the vector store's collection
    rows,       \* the documents table
    nextID,     \* the table's auto-increment counter
    created,    \* every document ever inserted, by id, as it was inserted
    last,       \* the operation that returned last: arguments, result, requests
    ctText,     \* chunkText specification: the text argument
    ctMaxLen,   \* chunkText specification: the maxLen argument
    ctPc,       \* chunkText specification: "start" before the call, "done" after
    ctOut,      \* chunkText specification: the chunks returned
    asArgs,     \* AskStream: [mode, request, userID, configured, question]
    asScript,   \* AskStream: the fragments the provider sends, in order
    asEnd,      \* AskStream: how the provider ends the stream: "eof" or "error"
    asFailAt,   \* AskStream: the invocation of onChunk that fails, 0 for none
    asPc,       \* AskStream: "idle", "start", "recv" (in the loop), "returned"
    asPos,      \* AskStream: the number of fragments read by stream.Recv
    asWritten,  \* AskStream: the deltas onChunk was invoked with, in order
    asRet,      \* AskStream: the error returned, <<>> for nil, outermost first
    asCalls,    \* AskStream: the requests sent before the loop
    asClosed,   \* AskStream: the number of stream.Close calls
    asOpened,   \* AskStream: CreateChatCompletionStream returned a stream
    asCancelled,\* AskStream: the request's context is cancelled
    asFrames,   \* what the handler has written to the client, in order
    asAnswer,   \* Ask: the *AskResponse returned, <<>> for nil, else <<text>>
    asChat,     \* Ask: what the provider answers to the completion request
    clOp,       \* client specification: "convert" (a query response) or "add"
    clIn,       \* client specification: the response, or the four lists of Add
    clPc,       \* client specification: "start" before the call, "done" after
    clOut,      \* client specification: what the operation returned
    collection, \* concurrent specifications: the store's collection exists
    proc        \* concurrent specifications: each caller's position and locals

ragVars == <<ragEnabled, store, rows, nextID, created, last>>
chunkVars == <<ctText, ctMaxLen, ctPc, ctOut>>
streamVars == <<asArgs, asScript, asEnd, asFailAt, asPc, asPos, asWritten, asRet,
                asCalls, asClosed, asOpened, asCancelled, asFrames, asAnswer,
                asChat>>

clientVars == <<clOp, clIn, clPc, clOut>>

raceVars == <<collection, proc>>

vars == <<ragVars, chunkVars, streamVars, clientVars, raceVars>>

\* ------------------------------------------------------------------- text

Bytes == {"a", "sp", "c3", "ef", "cb"}

\* All byte strings of length at most n.
BytesUpTo(n) == UNION {[1..k -> Bytes] : k \in 0..n}

RECURSIVE Flatten(_)
\* Concatenation of a sequence of strings (Go's + on strings).
Flatten(ss) == IF ss = <<>> THEN <<>> ELSE Head(ss) \o Flatten(Tail(ss))

RECURSIVE TrimLeft(_)
TrimLeft(s) == IF s # <<>> /\ Head(s) = "sp" THEN TrimLeft(Tail(s)) ELSE s

RECURSIVE TrimRight(_)
TrimRight(s) ==
    IF s # <<>> /\ s[Len(s)] = "sp" THEN TrimRight(SubSeq(s, 1, Len(s) - 1)) ELSE s

\* strings.TrimSpace: the string without its leading and trailing whitespace.
TrimSpace(s) == TrimRight(TrimLeft(s))

RECURSIVE DecodeRunes(_)
\* []rune(s): one rune per well-formed character, U+FFFD for every byte that
\* starts no well-formed character (the decoder then advances one byte).
DecodeRunes(s) ==
    IF s = <<>> THEN <<>>
    ELSE IF Head(s) \in {"a", "sp"}
         THEN <<Head(s)>> \o DecodeRunes(Tail(s))
    ELSE IF Head(s) = "c3" /\ Len(s) >= 2 /\ s[2] = "cb"
         THEN <<"e9">> \o DecodeRunes(SubSeq(s, 3, Len(s)))
    ELSE IF Head(s) = "ef" /\ Len(s) >= 3 /\ s[2] = "cb" /\ s[3] = "cb"
         THEN <<"fffd">> \o DecodeRunes(SubSeq(s, 4, Len(s)))
    ELSE <<"fffd">> \o DecodeRunes(Tail(s))

\* The UTF-8 encoding of one rune.
EncodeRune(r) ==
    CASE r = "e9"   -> <<"c3", "cb">>
      [] r = "fffd" -> <<"ef", "cb", "cb">>
      [] OTHER      -> <<r>>

RECURSIVE EncodeRunes(_)
\* string(runes)
EncodeRunes(rs) ==
    IF rs = <<>> THEN <<>> ELSE EncodeRune(Head(rs)) \o EncodeRunes(Tail(rs))

\* utf8.ValidString
ValidUTF8(s) == EncodeRunes(DecodeRunes(s)) = s

\* utf8.RuneCountInString
RuneCount(s) == Len(DecodeRunes(s))

\* -------------------------------------------------------------- chunkText

RECURSIVE ChunkLoopDropTail(_, _, _)
\* The loop with the short final chunk lost (the mutant of ChunkLoop).
ChunkLoopDropTail(runes, maxLen, start) ==
    IF start + maxLen > Len(runes) THEN <<>>
    ELSE <<EncodeRunes(SubSeq(runes, start + 1, start + maxLen))>>
             \o ChunkLoopDropTail(runes, maxLen, start + maxLen)

RECURSIVE ChunkLoopFrom(_, _, _)
\* for start := 0; start < len(runes); start += maxLen { ... }
ChunkLoopFrom(runes, maxLen, start) ==
    IF start >= Len(runes) THEN <<>>
    ELSE LET end == IF start + maxLen > Len(runes) THEN Len(runes)
                    ELSE start + maxLen
         IN  <<EncodeRunes(SubSeq(runes, start + 1, end))>>
                 \o ChunkLoopFrom(runes, maxLen, start + maxLen)

ChunkLoop(runes, maxLen, start) == ChunkLoopFrom(runes, maxLen, start)

\* chunkText(text, maxLen): the chunks of the trimmed text, maxLen runes each.
chunkText(text, maxLen) ==
    LET t == TrimSpace(text)
    IN  IF t = <<>> \/ maxLen <= 0 THEN <<>>
        ELSE ChunkLoop(DecodeRunes(t), maxLen, 0)

\* ----------------------------------------------------- values and inputs

\* Largest number of document rows the relational store ever creates
\* (the auto-increment id stops there).
MaxDocs == 2
\* The chunk size IndexDocument hands to chunkText: 800 in the source, scaled
\* down so that the small documents below are cut into several chunks.
ChunkLen == 2
\* topK when the caller passes none (topK <= 0).
DefaultTopK == 5

\* Registered users; 0 is the user id of no user.
Users == {1, 2}

\* Document bodies: a blank one (no chunk) and one of six characters after
\* trimming, one of them multi-byte (three chunks).
Contents == { <<"sp">>, <<"sp", "a", "c3", "cb", "a", "a", "a", "a">> }
Titles == {"T"}
\* A question with surrounding whitespace.
Question == <<"sp", "a", "sp">>

\* Arguments <<userID, title, content>> of DocumentService.Create.
CreateArgs ==
    {<<0, "T", <<"sp">>>>} \cup {<<u, t, c>> : u \in Users, t \in Titles, c \in Contents}
\* Arguments <<docID, userID>> of DeleteDocument and of DocumentService.Delete.
DeleteArgs == {<<0, 1>>, <<1, 0>>} \cup ((1..MaxDocs) \X Users)
\* Arguments <<userID, question, topK>> of RetrieveRelevantChunks: no user, an
\* empty and a blank question, and every user with topK absent or 1; user 1
\* also with a negative topK and with 2.
RetrieveArgs ==
    {<<0, Question, 0>>, <<1, <<>>, 0>>, <<1, <<"sp">>, 1>>, <<1, Question, -1>>,
     <<1, Question, 2>>}
        \cup {<<u, Question, k>> : u \in Users, k \in {0, 1}}

\* A *models.Document is <<>> (nil) or <<d>> with d a Document.
NilDoc == <<>>
Document(id, userID, title, content, status) ==
    [ID |-> id, UserID |-> userID, Title |-> title, Content |-> content,
     Status |-> status]

\* The elements of a sequence.
Range(seq) == {seq[i] : i \in 1..Len(seq)}

RECURSIVE SetToSeq(_)
\* The elements of a finite set in some fixed order.
SetToSeq(S) ==
    IF S = {} THEN <<>>
    ELSE LET x == CHOOSE y \in S : TRUE IN <<x>> \o SetToSeq(S \ {x})

\* ---------------------------------------------------- record ids, metadata

Digit(n) == <<"0", "1", "2", "3", "4", "5", "6", "7", "8", "9">>[n + 1]

RECURSIVE Digits(_)
\* fmt's %d of a non-negative integer.
Digits(n) == IF n < 10 THEN <<Digit(n)>> ELSE Digits(n \div 10) \o <<Digit(n % 10)>>


\* An id numbered from the size of the collection instead of the chunk's
\* position (the mutant of ChunkID).
ChunkIDCounter(docID, i, userID) ==
    Digits(docID) \o <<"-">> \o Digits(i + Cardinality(DOMAIN store)) \o <<"-">>
        \o Digits(userID)

\* An id made of the document and its owner alone (a mutant of ChunkID).
ChunkIDOfDocument(docID, i, userID) == Digits(docID) \o <<"-">> \o Digits(userID)

\* fmt.Sprintf("%d-%d-%d", doc.ID, i, doc.UserID)
ChunkID(docID, i, userID) ==
    Digits(docID) \o <<"-">> \o Digits(i) \o <<"-">> \o Digits(userID)

\* The metadata with user_id taken from the document id (the mutant of
\* ChunkMetadata).
ChunkMetadataWrongOwner(doc, i) ==
    [document_id |-> doc.ID, user_id |-> doc.ID, chunk_index |-> i,
     title |-> doc.Title]

\* The metadata map IndexDocument attaches to chunk i of doc.
ChunkMetadata(doc, i) ==
    [document_id |-> doc.ID, user_id |-> doc.UserID, chunk_index |-> i,
     title |-> doc.Title]

\* ------------------------------------------------------- the vector store
\* The store is a function from record ids to [document, metadata].  A where
\* filter is a sequence of <<key, value>> equalities, all of which must hold
\* ($and); the empty sequence filters nothing.

EmptyStore == [id \in {} |-> 0]
NoMetadata == [k \in {} |-> 0]

Matches(metadata, where) ==
    \A k \in 1..Len(where) :
        /\ where[k][1] \in DOMAIN metadata
        /\ metadata[where[k][1]] = where[k][2]

\* add: every id of the request is written, replacing a record of the same id.
StoreUpsert(st, ids, documents, metadatas) ==
    [id \in DOMAIN st \cup Range(ids) |->
        IF id \in Range(ids)
        THEN LET i == CHOOSE j \in 1..Len(ids) :
                          /\ ids[j] = id
                          /\ \A k \in (j + 1)..Len(ids) : ids[k] # id
             IN  [document |-> IF i <= Len(documents) THEN documents[i] ELSE <<>>,
                  metadata |-> IF i <= Len(metadatas) THEN metadatas[i]
                               ELSE NoMetadata]
        ELSE st[id]]

\* delete: the records of the listed ids are removed.
StoreDelete(st, ids) == [id \in DOMAIN st \ Range(ids) |-> st[id]]

\* get with a where filter: the ids of the matching records.
StoreGetIDs(st, where) ==
    SetToSeq({id \in DOMAIN st : Matches(st[id].metadata, where)})

\* The rankings a query may see: the store orders by distance to the query
\* vector, which the program cannot predict.  A ranking is the fixed order of
\* the ids rotated by rot and, with rev, reversed.
Rankings == [rot : 0..1, rev : BOOLEAN]

Ranked(ids, ranking) ==
    LET n == Len(ids)
        rotated == [i \in 1..n |-> ids[((i - 1 + ranking.rot) % n) + 1]]
    IN  IF ranking.rev THEN [i \in 1..n |-> rotated[n + 1 - i]] ELSE rotated

\* query: the nResults best matches of the filter, best first, as the
\* result matrices of the one query vector.
StoreQuery(st, nResults, where, ranking) ==
    LET matching == Ranked(StoreGetIDs(st, where), ranking)
        best == SubSeq(matching, 1,
                       IF nResults < Len(matching) THEN nResults ELSE Len(matching))
    IN  [IDs       |-> << best >>,
         Documents |-> << [i \in 1..Len(best) |-> st[best[i]].document] >>,
         Metadatas |-> << [i \in 1..Len(best) |-> st[best[i]].metadata] >>]

\* -------------------------------------------------- the outside world
\* What the calls to the embedding provider and to the store may do.  A write
\* request (add, delete) is applied and answered ("ok"), refused ("rejected"),
\* or applied with its answer lost on the way back ("lost": the client's
\* timeout or a broken connection); a read request is answered or fails.

EmbedOutcomes == {"fail", "fewer", "exact", "more"}
\* The same without "more", where one vector too many changes nothing.
EmbedOutcomesShort == {"fail", "fewer", "exact"}
WriteOutcomes == {"ok", "rejected", "lost"}
ReadOutcomes == {"ok", "rejected"}

\* len(resp.Data) taken for the number of inputs, whatever came back (a
\* mutant of EmbedCount).
EmbedCountAsAsked(outcome, n) == n

\* len(resp.Data) of an embedding response to n inputs.
EmbedCount(outcome, n) ==
    CASE outcome = "fewer" -> n - 1
      [] outcome = "more"  -> n + 1
      [] OTHER             -> n

\* One request sent to the embedding provider or to the store.
Call(api, ids, where, n) == [api |-> api, ids |-> ids, where |-> where, n |-> n]

\* ------------------------------------------------------ the Chroma client

\* Client.Add
Client_Add(st, ids, embeddings, documents, metadatas, http) ==
    IF Len(ids) # Len(embeddings) \/ Len(ids) # Len(documents)
    THEN [err |-> TRUE, store |-> st, calls |-> <<>>]
    ELSE [err   |-> http # "ok",
          store |-> IF http = "rejected" THEN st
                    ELSE StoreUpsert(st, ids, documents, metadatas),
          calls |-> << Call("add", ids, <<>>, Len(metadatas)) >>]

\* Client.Query
Client_Query(st, queryVec, nResults, where, http, ranking) ==
    [err   |-> http # "ok",
     resp  |-> StoreQuery(st, nResults, where, ranking),
     calls |-> << Call("query", <<>>, where, nResults) >>]

\* Client.GetIDsByMetadata
Client_GetIDsByMetadata(st, where, http) ==
    [err   |-> http # "ok",
     ids   |-> IF http = "ok" THEN StoreGetIDs(st, where) ELSE <<>>,
     calls |-> << Call("get", <<>>, where, 0) >>]

\* Client.Delete sending all ids but the last (the mutant of Client_Delete).
Client_DeleteButLast(st, ids, http) ==
    IF Len(ids) = 0
    THEN [err |-> FALSE, store |-> st, calls |-> <<>>]
    ELSE [err   |-> http # "ok",
          store |-> IF http = "rejected" THEN st
                    ELSE StoreDelete(st, SubSeq(ids, 1, Len(ids) - 1)),
          calls |-> << Call("delete", ids, <<>>, 0) >>]

\* Client.Delete without its test for an empty list (a mutant of
\* Client_Delete).
Client_DeleteEvenEmpty(st, ids, http) ==
    [err   |-> http # "ok",
     store |-> IF http = "rejected" THEN st ELSE StoreDelete(st, ids),
     calls |-> << Call("delete", ids, <<>>, 0) >>]

\* Client.Delete
Client_Delete(st, ids, http) ==
    IF Len(ids) = 0
    THEN [err |-> FALSE, store |-> st, calls |-> <<>>]
    ELSE [err   |-> http # "ok",
          store |-> IF http = "rejected" THEN st ELSE StoreDelete(st, ids),
          calls |-> << Call("delete", ids, <<>>, 0) >>]

\* ------------------------------------------------------------- RAGService
\* Each operation yields [ret, store, calls, chunks]: what it returns ("ok",
\* "err", or "panic" for a nil dereference), the store afterwards, the
\* requests it sent in order, and the chunks it returns (retrieval only).

Outcome(ret, st, calls, chunks) ==
    [ret |-> ret, store |-> st, calls |-> calls, chunks |-> chunks]

\* The where filter of RetrieveRelevantChunks with no condition (the mutant
\* of RetrieveWhere).
RetrieveWhereNone(userID) == <<>>

\* where := map[string]interface{}{"user_id": int(userID)}
RetrieveWhere(userID) == << <<"user_id", userID>> >>

\* The filter of DeleteDocument without its user_id condition (a mutant of
\* DeleteWhere).
DeleteWhereAnyUser(docID, userID) == << <<"document_id", docID>> >>

\* where := {"$and": [{"document_id": docID}, {"user_id": userID}]}
DeleteWhere(docID, userID) == << <<"document_id", docID>>, <<"user_id", userID>> >>

\* RAGService.IndexDocument
IndexDocument(enabled, st, docp, embed, add) ==
    IF ~enabled
    THEN \* the log line reads doc.ID before doc is compared with nil
         Outcome(IF docp = NilDoc THEN "panic" ELSE "ok", st, <<>>, <<>>)
    ELSE IF docp = NilDoc \/ docp[1].ID = 0 \/ docp[1].UserID = 0
    THEN Outcome("err", st, <<>>, <<>>)
    ELSE
    LET doc == docp[1]
        chunks == chunkText(doc.Content, ChunkLen)
        n == Len(chunks)
        embedCall == << Call("embed", <<>>, <<>>, n) >>
        ids == [i \in 1..n |-> ChunkID(doc.ID, i - 1, doc.UserID)]
        embeddings == [i \in 1..n |-> "vector"]
        metadatas == [i \in 1..n |-> ChunkMetadata(doc, i - 1)]
        added == Client_Add(st, ids, embeddings, chunks, metadatas, add)
    IN  IF n = 0 THEN Outcome("ok", st, <<>>, <<>>)
        ELSE IF embed = "fail" THEN Outcome("err", st, embedCall, <<>>)
        ELSE IF EmbedCount(embed, n) # n THEN Outcome("err", st, embedCall, <<>>)
        ELSE Outcome(IF added.err THEN "err" ELSE "ok", added.store,
                     embedCall \o added.calls, <<>>)

\* A number field of a decoded metadata map, 0 when the field is absent:
\* if v, ok := metadata[key].(float64); ok { field = uint(v) }
MetaNumber(metadata, key) == IF key \in DOMAIN metadata THEN metadata[key] ELSE 0

RECURSIVE ToChunks(_, _, _)
\* The loop over queryResp.Documents[0] from position i (1-based) on.
ToChunks(documents, metadatas, i) ==
    IF i > Len(documents) THEN <<>>
    ELSE IF i > Len(metadatas) THEN ToChunks(documents, metadatas, i + 1)
    ELSE << [DocumentID |-> MetaNumber(metadatas[i], "document_id"),
             UserID     |-> MetaNumber(metadatas[i], "user_id"),
             Index      |-> MetaNumber(metadatas[i], "chunk_index"),
             Content    |-> documents[i]] >>
           \o ToChunks(documents, metadatas, i + 1)

\* The end of RetrieveRelevantChunks, from the query response on: [ret, chunks].
ConvertResponse(resp) ==
    IF Len(resp.Documents) = 0 \/ Len(resp.Documents[1]) = 0
    THEN [ret |-> "ok", chunks |-> <<>>]
    ELSE IF Len(resp.Metadatas) = 0 THEN [ret |-> "panic", chunks |-> <<>>]
    ELSE [ret |-> "ok",
          chunks |-> ToChunks(resp.Documents[1], resp.Metadatas[1], 1)]

\* n_results taken from topK as it is (a mutant of NResults).
NResultsAsGiven(topK) == topK

\* The n_results of the query: topK, or the default when topK is not positive.
NResults(topK) == IF topK <= 0 THEN DefaultTopK ELSE topK

\* RAGService.RetrieveRelevantChunks
RetrieveRelevantChunks(enabled, st, userID, question, topK, embed, http, ranking) ==
    IF ~enabled THEN Outcome("ok", st, <<>>, <<>>)
    ELSE IF userID = 0 THEN Outcome("err", st, <<>>, <<>>)
    ELSE IF TrimSpace(question) = <<>> THEN Outcome("err", st, <<>>, <<>>)
    ELSE
    LET k == NResults(topK)
        embedCall == << Call("embed", <<>>, <<>>, 1) >>
        queried == Client_Query(st, "vector", k, RetrieveWhere(userID), http, ranking)
        calls == embedCall \o queried.calls
        resp == queried.resp
    IN  IF embed = "fail" THEN Outcome("err", st, embedCall, <<>>)
        ELSE IF EmbedCount(embed, 1) = 0 THEN Outcome("err", st, embedCall, <<>>)
        ELSE IF queried.err THEN Outcome("err", st, calls, <<>>)
        ELSE LET converted == ConvertResponse(resp)
             IN  Outcome(converted.ret, st, calls, converted.chunks)

\* RAGService.DeleteDocument without the test of its two ids (a mutant of
\* DeleteDocument).
DeleteDocumentUnchecked(enabled, st, docID, userID, get, del) ==
    IF ~enabled THEN Outcome("ok", st, <<>>, <<>>)
    ELSE
    LET found == Client_GetIDsByMetadata(st, DeleteWhere(docID, userID), get)
        deleted == Client_Delete(st, found.ids, del)
    IN  IF found.err THEN Outcome("err", st, found.calls, <<>>)
        ELSE IF Len(found.ids) = 0 THEN Outcome("ok", st, found.calls, <<>>)
        ELSE Outcome(IF deleted.err THEN "err" ELSE "ok", deleted.store,
                     found.calls \o deleted.calls, <<>>)

\* RAGService.DeleteDocument
DeleteDocument(enabled, st, docID, userID, get, del) ==
    IF ~enabled THEN Outcome("ok", st, <<>>, <<>>)
    ELSE IF docID = 0 \/ userID = 0 THEN Outcome("err", st, <<>>, <<>>)
    ELSE
    LET found == Client_GetIDsByMetadata(st, DeleteWhere(docID, userID), get)
        deleted == Client_Delete(st, found.ids, del)
    IN  IF found.err THEN Outcome("err", st, found.calls, <<>>)
        ELSE IF Len(found.ids) = 0 THEN Outcome("ok", st, found.calls, <<>>)
        ELSE Outcome(IF deleted.err THEN "err" ELSE "ok", deleted.store,
                     found.calls \o deleted.calls, <<>>)

\* ---------------------------------------------------- the relational store
\* rows is a function from the ids of the rows present to Documents.

\* DocumentRepository.Create: the row is inserted under the next id.
Repo_Create(rws, id, doc, dbOk) ==
    IF dbOk
    THEN [id2 \in DOMAIN rws \cup {id} |->
             IF id2 = id THEN [doc EXCEPT !.ID = id] ELSE rws[id2]]
    ELSE rws

\* DocumentRepository.Update: the row of doc's id is overwritten with doc.
Repo_Update(rws, doc, dbOk) ==
    IF dbOk /\ doc.ID \in DOMAIN rws
    THEN [rws EXCEPT ![doc.ID] = doc]
    ELSE rws

\* DocumentRepository.DeleteByIDAndUser: WHERE id = ? AND user_id = ?
Repo_DeleteByIDAndUser(rws, id, userID, dbOk) ==
    IF dbOk
    THEN [id2 \in {x \in DOMAIN rws : ~(x = id /\ rws[x].UserID = userID)} |-> rws[id2]]
    ELSE rws

\* -------------------------------------------------------- DocumentService
\* Each operation yields [ret, docp, rows, store, calls].

\* Create answering an indexing failure with an error (a mutant of
\* DocumentService_Create).
DocumentService_CreateOrFail(enabled, rws, st, id, userID, title, content, dbCreate, embed, add, dbUpdate) ==
    IF userID = 0 \/ ~dbCreate
    THEN [ret |-> "err", docp |-> NilDoc, rows |-> rws, store |-> st, calls |-> <<>>]
    ELSE
    LET doc == Document(id, userID, title, content, "ready")
        saved == Repo_Create(rws, id, doc, dbCreate)
        indexed == IndexDocument(enabled, st, <<doc>>, embed, add)
    IN  IF ~enabled
        THEN [ret |-> "ok", docp |-> <<doc>>, rows |-> saved, store |-> st,
              calls |-> <<>>]
        ELSE [ret |-> indexed.ret,
              docp |-> IF indexed.ret = "ok" THEN <<doc>> ELSE NilDoc,
              rows |-> saved, store |-> indexed.store, calls |-> indexed.calls]

\* DocumentService.Create
DocumentService_Create(enabled, rws, st, id, userID, title, content, dbCreate, embed, add, dbUpdate) ==
    IF userID = 0
    THEN [ret |-> "err", docp |-> NilDoc, rows |-> rws, store |-> st, calls |-> <<>>]
    ELSE IF ~dbCreate
    THEN [ret |-> "err", docp |-> NilDoc, rows |-> rws, store |-> st, calls |-> <<>>]
    ELSE
    LET doc == Document(id, userID, title, content, "ready")
        saved == Repo_Create(rws, id, doc, dbCreate)
        indexed == IndexDocument(enabled, st, <<doc>>, embed, add)
        failed == [doc EXCEPT !.Status = "indexing_failed"]
    IN  IF ~enabled
        THEN [ret |-> "ok", docp |-> <<doc>>, rows |-> saved, store |-> st,
              calls |-> <<>>]
        ELSE IF indexed.ret # "ok"
        THEN [ret |-> "ok", docp |-> <<failed>>,
              rows |-> Repo_Update(saved, failed, dbUpdate),
              store |-> indexed.store, calls |-> indexed.calls]
        ELSE [ret |-> "ok", docp |-> <<doc>>, rows |-> saved,
              store |-> indexed.store, calls |-> indexed.calls]

\* DocumentService.Delete
DocumentService_Delete(enabled, rws, st, userID, docID, get, del, dbDelete) ==
    IF userID = 0
    THEN [ret |-> "err", docp |-> NilDoc, rows |-> rws, store |-> st, calls |-> <<>>]
    ELSE
    LET removed == IF enabled
                   THEN DeleteDocument(enabled, st, docID, userID, get, del)
                   ELSE Outcome("ok", st, <<>>, <<>>)
    IN  [ret   |-> IF dbDelete THEN "ok" ELSE "err",
         docp  |-> NilDoc,
         rows  |-> Repo_DeleteByIDAndUser(rws, docID, userID, dbDelete),
         store |-> removed.store,
         calls |-> removed.calls]

\* What the caller of an operation sees when it returns: the operation, its
\* arguments, what it returned, the requests it sent and the chunks it
\* returned.  had is the number of records the store held, when the operation
\* was called, for the document and owner the call names.
Last(op, userID, docID, docp, question, topK, ret, calls, chunks) ==
    [op |-> op, userID |-> userID, docID |-> docID, docp |-> docp,
     question |-> question, topK |-> topK, ret |-> ret, calls |-> calls,
     chunks |-> chunks, ranking |-> [rot |-> 0, rev |-> FALSE],
     had |-> IF docp # NilDoc
             THEN Len(StoreGetIDs(store, DeleteWhere(docp[1].ID, docp[1].UserID)))
             ELSE Len(StoreGetIDs(store, DeleteWhere(docID, userID)))]

\* No call is under way.
NoCall == [op |-> "none", userID |-> 0, docID |-> 0, docp |-> NilDoc,
           question |-> <<>>, topK |-> 0, ret |-> "ok", calls |-> <<>>,
           chunks |-> <<>>, ranking |-> [rot |-> 0, rev |-> FALSE], had |-> 0]

NoRows == [id \in {} |-> 0]

RagIdle ==
    /\ store = EmptyStore
    /\ rows = NoRows
    /\ nextID = 1
    /\ created = NoRows
    /\ last = NoCall

ChunkIdle ==
    /\ ctText = <<>>
    /\ ctMaxLen = 0
    /\ ctPc = "idle"
    /\ ctOut = <<>>

ClientIdle ==
    /\ clOp = "none"
    /\ clIn = <<>>
    /\ clPc = "idle"
    /\ clOut = <<>>

RaceIdle ==
    /\ collection = FALSE
    /\ proc = <<>>

StreamIdle ==
    /\ asArgs = [mode |-> "none", request |-> "ok", userID |-> 0,
                 configured |-> FALSE, question |-> <<>>]
    /\ asScript = <<>>
    /\ asEnd = "eof"
    /\ asFailAt = 0
    /\ asPc = "idle"
    /\ asPos = 0
    /\ asWritten = <<>>
    /\ asRet = <<>>
    /\ asCalls = <<>>
    /\ asClosed = 0
    /\ asOpened = FALSE
    /\ asCancelled = FALSE
    /\ asFrames = <<>>
    /\ asAnswer = <<>>
    /\ asChat = "one"

\* ------------------------------------------------ the service specification

Init ==
    /\ ragEnabled \in BOOLEAN
    /\ RagIdle
    /\ ChunkIdle
    /\ ClientIdle
    /\ RaceIdle
    /\ StreamIdle

\* The outcome of a call that is not made is not drawn: it is left at the
\* value below.
NotDrawn(made, outcome, default) == (~made) => (outcome = default)

\* POST /documents: DocumentService.Create
DocCreate ==
    /\ last = NoCall
    /\ nextID <= MaxDocs
    /\ \E args \in CreateArgs,
          dbCreate \in BOOLEAN, embed \in EmbedOutcomesShort, add \in WriteOutcomes,
          dbUpdate \in BOOLEAN :
        /\ NotDrawn(args[1] # 0, dbCreate, TRUE)
        /\ NotDrawn(ragEnabled /\ args[1] # 0 /\ dbCreate
                        /\ chunkText(args[3], ChunkLen) # <<>>, embed, "exact")
        /\ NotDrawn(embed = "exact", add, "ok")
        /\ NotDrawn(embed # "exact" \/ add # "ok", dbUpdate, TRUE)
        /\ \E r \in {DocumentService_Create(ragEnabled, rows, store, nextID, args[1],
                                            args[2], args[3], dbCreate, embed, add,
                                            dbUpdate)} :
            /\ rows' = r.rows
            /\ store' = r.store
            /\ nextID' = IF r.docp = NilDoc THEN nextID ELSE nextID + 1
            /\ created' = IF r.docp = NilDoc THEN created
                          ELSE Repo_Create(created, nextID,
                                   Document(nextID, args[1], args[2], args[3], "ready"),
                                   TRUE)
            /\ last' = Last("Create", args[1], 0, r.docp, <<>>, 0, r.ret, r.calls, <<>>)
            /\ UNCHANGED <<ragEnabled, chunkVars, streamVars, clientVars, raceVars>>

\* DELETE /documents/:id: DocumentService.Delete
DocDelete ==
    /\ last = NoCall
    /\ \E args \in DeleteArgs,
          get \in ReadOutcomes, del \in WriteOutcomes, dbDelete \in BOOLEAN :
        /\ NotDrawn(args[2] # 0, dbDelete, TRUE)
        /\ NotDrawn(ragEnabled /\ args[2] # 0 /\ args[1] # 0, get, "ok")
        /\ NotDrawn(ragEnabled /\ args[2] # 0 /\ args[1] # 0 /\ get = "ok"
                        /\ StoreGetIDs(store, DeleteWhere(args[1], args[2])) # <<>>,
                    del, "ok")
        /\ \E r \in {DocumentService_Delete(ragEnabled, rows, store, args[2], args[1],
                                            get, del, dbDelete)} :
            /\ rows' = r.rows
            /\ store' = r.store
            /\ last' = Last("Delete", args[2], args[1], NilDoc, <<>>, 0, r.ret,
                            r.calls, <<>>)
            /\ UNCHANGED <<ragEnabled, nextID, created, chunkVars, streamVars, clientVars, raceVars>>

\* The documents IndexDocument may be handed: nil, a row of the table, and a
\* document that was never saved (id 0) or has no owner.
IndexArgs ==
    {NilDoc} \cup {<<rows[id]>> : id \in DOMAIN rows}
             \cup {<<Document(0, 1, "T", <<"sp", "a">>, "ready")>>,
                   <<Document(1, 0, "T", <<"sp", "a">>, "ready")>>}

\* RAGService.IndexDocument
Index ==
    /\ last = NoCall
    /\ \E docp \in IndexArgs, embed \in EmbedOutcomes, add \in WriteOutcomes :
        /\ NotDrawn(ragEnabled /\ docp \in {<<rows[id]>> : id \in DOMAIN rows}
                        /\ chunkText(docp[1].Content, ChunkLen) # <<>>,
                    embed, "exact")
        /\ NotDrawn(embed = "exact", add, "ok")
        /\ \E r \in {IndexDocument(ragEnabled, store, docp, embed, add)} :
            /\ store' = r.store
            /\ last' = Last("IndexDocument", 0, 0, docp, <<>>, 0, r.ret, r.calls, <<>>)
            /\ UNCHANGED <<ragEnabled, rows, nextID, created, chunkVars, streamVars, clientVars, raceVars>>

\* RAGService.RetrieveRelevantChunks
Retrieve ==
    /\ last = NoCall
    /\ \E args \in RetrieveArgs,
          embed \in EmbedOutcomesShort, http \in ReadOutcomes, ranking \in Rankings :
        /\ NotDrawn(ragEnabled /\ args[1] # 0 /\ TrimSpace(args[2]) # <<>>,
                    embed, "exact")
        /\ NotDrawn(embed = "exact", http, "ok")
        /\ NotDrawn(ragEnabled /\ args[1] # 0 /\ TrimSpace(args[2]) # <<>>
                        /\ embed = "exact" /\ http = "ok"
                        /\ Len(StoreGetIDs(store, RetrieveWhere(args[1]))) > 1,
                    ranking, [rot |-> 0, rev |-> FALSE])
        /\ \E r \in {RetrieveRelevantChunks(ragEnabled, store, args[1], args[2],
                                            args[3], embed, http, ranking)} :
            /\ store' = r.store
            /\ last' = [Last("RetrieveRelevantChunks", args[1], 0, NilDoc, args[2],
                             args[3], r.ret, r.calls, r.chunks)
                            EXCEPT !.ranking = ranking]
            /\ UNCHANGED <<ragEnabled, rows, nextID, created, chunkVars, streamVars, clientVars, raceVars>>

\* RAGService.DeleteDocument
RagDelete ==
    /\ last = NoCall
    /\ \E args \in DeleteArgs, get \in ReadOutcomes, del \in WriteOutcomes :
        /\ NotDrawn(ragEnabled /\ args[1] # 0 /\ args[2] # 0, get, "ok")
        /\ NotDrawn(get = "ok"
                        /\ StoreGetIDs(store, DeleteWhere(args[1], args[2])) # <<>>,
                    del, "ok")
        /\ \E r \in {DeleteDocument(ragEnabled, store, args[1], args[2], get, del)} :
            /\ store' = r.store
            /\ last' = Last("DeleteDocument", args[2], args[1], NilDoc, <<>>, 0,
                            r.ret, r.calls, <<>>)
            /\ UNCHANGED <<ragEnabled, rows, nextID, created, chunkVars, streamVars, clientVars, raceVars>>

\* The caller has taken the result of its call and may call again.
Return ==
    /\ last # NoCall
    /\ last' = NoCall
    /\ UNCHANGED <<ragEnabled, store, rows, nextID, created, chunkVars, streamVars, clientVars, raceVars>>

Next == DocCreate \/ DocDelete \/ Index \/ Retrieve \/ RagDelete \/ Return

Spec == Init /\ [][Next]_vars

\* ---------------------------------------------- the chunkText specification

ChunkInit ==
    /\ ragEnabled = FALSE
    /\ RagIdle
    /\ ctText \in BytesUpTo(MaxLen)
    /\ ctMaxLen \in -1..MaxChunkArg
    /\ ctPc = "start"
    /\ ctOut = <<>>
    /\ StreamIdle
    /\ ClientIdle
    /\ RaceIdle

ChunkCall ==
    /\ ctPc = "start"
    /\ ctPc' = "done"
    /\ ctOut' = chunkText(ctText, ctMaxLen)
    /\ UNCHANGED <<ctText, ctMaxLen, ragVars, streamVars, clientVars, raceVars>>

ChunkNext == ChunkCall

SpecChunk == ChunkInit /\ [][ChunkNext]_vars

\* ------------------------------------------------ the client specification
\* Client.Add on lists of every combination of lengths, and the end of
\* RetrieveRelevantChunks on query responses whose metadata lack fields or
\* hold values that are not numbers.

\* A value of a metadata map as encoding/json decodes it into interface{}: a
\* number (float64) or a string.
JNumber(n) == [type |-> "number", value |-> n]
JString == [type |-> "string", value |-> 0]

\* Metadata maps of a query response: complete ones, ones that lack one of
\* the three numeric fields, one whose document_id is a string, an empty one.
WireMetadatas ==
    { [document_id |-> JNumber(1), user_id |-> JNumber(1), chunk_index |-> JNumber(0),
       title |-> JString],
      [document_id |-> JNumber(2), user_id |-> JNumber(1), chunk_index |-> JNumber(1),
       title |-> JString],
      [user_id |-> JNumber(1), chunk_index |-> JNumber(0), title |-> JString],
      [document_id |-> JNumber(1), chunk_index |-> JNumber(0), title |-> JString],
      [document_id |-> JNumber(1), user_id |-> JNumber(1), title |-> JString],
      [document_id |-> JString, user_id |-> JNumber(1), chunk_index |-> JNumber(0),
       title |-> JString],
      NoMetadata }

\* The texts of a result list of n entries.
WireDocuments(n) == [i \in 1..n |-> <<"a", Digit(i)>>]

\* Query responses: result lists of up to MaxEntries texts and metadata maps,
\* and the responses without a result list.
WireResponses ==
    { [Documents |-> << WireDocuments(n) >>, Metadatas |-> << metadatas >>] :
          n \in 0..MaxEntries,
          metadatas \in UNION {[1..k -> WireMetadatas] : k \in 0..MaxEntries} }
    \cup { [Documents |-> <<>>, Metadatas |-> <<>>],
           [Documents |-> << WireDocuments(1) >>, Metadatas |-> <<>>] }

\* The three assertions metadata[key].(float64): a value that is not a number
\* is passed over like a missing one.
AssertNumbers(metadata) ==
    [k \in {key \in DOMAIN metadata : metadata[key].type = "number"} |->
        metadata[k].value]

\* The response with the assertions applied to the maps of every result list.
AssertResponse(resp) ==
    [Documents |-> resp.Documents,
     Metadatas |-> [l \in 1..Len(resp.Metadatas) |->
                      [i \in 1..Len(resp.Metadatas[l]) |->
                          AssertNumbers(resp.Metadatas[l][i])]]]

\* The four lists of Client.Add with the lengths given.
AddLists(lengths) ==
    [ids        |-> [i \in 1..lengths[1] |-> ChunkID(1, i - 1, 1)],
     embeddings |-> [i \in 1..lengths[2] |-> "vector"],
     documents  |-> [i \in 1..lengths[3] |-> <<"a", Digit(i)>>],
     metadatas  |-> [i \in 1..lengths[4] |->
                       ChunkMetadata(Document(1, 1, "T", <<>>, "ready"), i - 1)]]

ClientInit ==
    /\ ragEnabled = FALSE
    /\ RagIdle
    /\ ChunkIdle
    /\ StreamIdle
    /\ RaceIdle
    /\ clOp \in {"convert", "add"}
    /\ clIn \in IF clOp = "convert" THEN WireResponses
                ELSE {AddLists(lengths) : lengths \in [1..4 -> 0..MaxEntries]}
    /\ clPc = "start"
    /\ clOut = <<>>

\* The end of RetrieveRelevantChunks on the response clIn.
ConvertCall ==
    /\ clPc = "start"
    /\ clOp = "convert"
    /\ clOut' = ConvertResponse(AssertResponse(clIn))
    /\ clPc' = "done"
    /\ UNCHANGED <<ragVars, chunkVars, streamVars, raceVars, clOp, clIn>>

\* Client.Add on the lists clIn.
AddCall ==
    /\ clPc = "start"
    /\ clOp = "add"
    /\ \E http \in WriteOutcomes :
        /\ clOut' = Client_Add(EmptyStore, clIn.ids, clIn.embeddings, clIn.documents,
                               clIn.metadatas, http)
    /\ clPc' = "done"
    /\ UNCHANGED <<ragVars, chunkVars, streamVars, raceVars, clOp, clIn>>

ClientNext == ConvertCall \/ AddCall

SpecClient == ClientInit /\ [][ClientNext]_vars

\* -------------------------------------------------------------- QAService
\* A fragment of the provider's stream is [choices, delta]: the number of
\* choices it carries and the content delta of the first one.

Deltas == { <<>>, <<"a">>, <<"b">>, <<"c">> }
Fragments == {[choices |-> 0, delta |-> <<>>]}
                 \cup {[choices |-> 1, delta |-> d] : d \in Deltas}
Scripts == UNION {[1..k -> Fragments] : k \in 0..MaxFrags}

\* What the two handlers are asked: a request without an authenticated user,
\* one whose body does not bind, and bound requests with no user id, with no
\* chat credential configured, with a blank question, and one that passes
\* the three checks of the service.
RequestArgs ==
    { [request |-> "noUser",  userID |-> 0, configured |-> TRUE,  question |-> Question],
      [request |-> "badJSON", userID |-> 1, configured |-> TRUE,  question |-> <<>>],
      [request |-> "ok",      userID |-> 0, configured |-> TRUE,  question |-> Question],
      [request |-> "ok",      userID |-> 0, configured |-> FALSE, question |-> <<"sp">>],
      [request |-> "ok",      userID |-> 1, configured |-> FALSE, question |-> <<"sp">>],
      [request |-> "ok",      userID |-> 1, configured |-> TRUE,  question |-> <<"sp">>],
      [request |-> "ok",      userID |-> 1, configured |-> TRUE,  question |-> Question] }

\* The arguments of POST /qa/ask/stream and of POST /qa/ask.
StreamArgs ==
    { [mode |-> "stream", request |-> a.request, userID |-> a.userID,
       configured |-> a.configured, question |-> a.question] : a \in RequestArgs }
AskArgs ==
    { [mode |-> "ask", request |-> a.request, userID |-> a.userID,
       configured |-> a.configured, question |-> a.question] : a \in RequestArgs }

\* The call reaches the chat provider unless retrieval fails.
PassesChecks(args) ==
    /\ args.request = "ok"
    /\ args.userID # 0
    /\ args.configured
    /\ TrimSpace(args.question) # <<>>

\* The entries in the opposite order (a mutant of ContextBlock).
ContextBlockReversed(chunks, i) ==
    [k \in 1..Len(chunks) |-> <<"label", k, chunks[Len(chunks) + 1 - k].Content>>]

RECURSIVE ContextBlock(_, _)
\* The "【片段 i】" entries of the chunks from position i on.
ContextBlock(chunks, i) ==
    IF i > Len(chunks) THEN <<>>
    ELSE << <<"label", i, chunks[i].Content>> >> \o ContextBlock(chunks, i + 1)

\* The prompt built without the chunks when the retrieval failed (a mutant of
\* MessagesWithContext).
MessagesBestEffort(question, got) ==
    [err |-> <<>>,
     messages |-> << [Role |-> "system", Content |-> <<"systemPrompt">>],
                     [Role |-> "user", Content |-> question] >>,
     calls |-> got.calls]

\* buildMessagesWithContext once the retrieval has returned got.
MessagesWithContext(question, got) ==
    LET contextText == IF Len(got.chunks) > 0
                       THEN <<"contextHeader">> \o ContextBlock(got.chunks, 1)
                                \o <<"contextFooter">>
                       ELSE <<>>
        systemContent == IF contextText # <<>>
                         THEN <<"systemPrompt", "\n\n">> \o contextText
                         ELSE <<"systemPrompt">>
    IN  IF got.ret # "ok"
        THEN [err |-> <<"retrieval failed">>, messages |-> <<>>, calls |-> got.calls]
        ELSE [err |-> <<>>,
              messages |-> << [Role |-> "system", Content |-> systemContent],
                              [Role |-> "user", Content |-> question] >>,
              calls |-> got.calls]

\* QAService.buildMessagesWithContext: [err, messages, calls].
buildMessagesWithContext(enabled, st, userID, question, embed, http, ranking) ==
    MessagesWithContext(question,
        IF enabled
        THEN RetrieveRelevantChunks(enabled, st, userID, question, 5,
                                    embed, http, ranking)
        ELSE Outcome("ok", st, <<>>, <<>>))

\* AskStream up to the loop with the question looked at before the chat
\* credential (a mutant of AskStreamOpen).
AskStreamOpenQuestionFirst(enabled, st, args, embed, http, ranking, openOk) ==
    IF args.userID = 0
    THEN [err |-> <<"invalid user">>, calls |-> <<>>, opened |-> FALSE]
    ELSE IF TrimSpace(args.question) = <<>>
    THEN [err |-> <<"question is empty">>, calls |-> <<>>, opened |-> FALSE]
    ELSE IF ~args.configured
    THEN [err |-> <<"llm client not configured">>, calls |-> <<>>, opened |-> FALSE]
    ELSE
    LET built == buildMessagesWithContext(enabled, st, args.userID,
                                          TrimSpace(args.question), embed, http,
                                          ranking)
        request == << Call("chat_stream", <<>>, <<>>, Len(built.messages)) >>
    IN  IF built.err # <<>>
        THEN [err |-> built.err, calls |-> built.calls, opened |-> FALSE]
        ELSE IF ~openOk
        THEN [err |-> <<"failed to create stream", "provider error">>,
              calls |-> built.calls \o request, opened |-> FALSE]
        ELSE [err |-> <<>>, calls |-> built.calls \o request, opened |-> TRUE]

\* AskStream up to the loop: the three checks, the prompt, the stream request.
\* [err, calls, opened].
AskStreamOpen(enabled, st, args, embed, http, ranking, openOk) ==
    IF args.userID = 0
    THEN [err |-> <<"invalid user">>, calls |-> <<>>, opened |-> FALSE]
    ELSE IF ~args.configured
    THEN [err |-> <<"llm client not configured">>, calls |-> <<>>, opened |-> FALSE]
    ELSE IF TrimSpace(args.question) = <<>>
    THEN [err |-> <<"question is empty">>, calls |-> <<>>, opened |-> FALSE]
    ELSE
    LET built == buildMessagesWithContext(enabled, st, args.userID,
                                          TrimSpace(args.question), embed, http,
                                          ranking)
        request == << Call("chat_stream", <<>>, <<>>, Len(built.messages)) >>
    IN  IF built.err # <<>>
        THEN [err |-> built.err, calls |-> built.calls, opened |-> FALSE]
        ELSE IF ~openOk
        THEN [err |-> <<"failed to create stream", "provider error">>,
              calls |-> built.calls \o request, opened |-> FALSE]
        ELSE [err |-> <<>>, calls |-> built.calls \o request, opened |-> TRUE]

\* QAService.Ask: [err, calls, answer].  chat is what the provider answers to
\* the completion request: "fail", or "none", "one", "two" candidates.
ChatOutcomes == {"fail", "none", "one", "two"}

\* resp.Choices of a completion answered with the outcome chat.
Candidates(chat) ==
    CASE chat = "one" -> << <<"x">> >>
      [] chat = "two" -> << <<"y">>, <<"x">> >>
      [] OTHER        -> <<>>

\* QAService.Ask returning the last candidate (a mutant of Ask).
AskLastCandidate(enabled, st, args, embed, http, ranking, chat) ==
    IF args.userID = 0
    THEN [err |-> <<"invalid user">>, calls |-> <<>>, answer |-> <<>>]
    ELSE IF ~args.configured
    THEN [err |-> <<"llm client not configured">>, calls |-> <<>>, answer |-> <<>>]
    ELSE IF TrimSpace(args.question) = <<>>
    THEN [err |-> <<"question is empty">>, calls |-> <<>>, answer |-> <<>>]
    ELSE
    LET built == buildMessagesWithContext(enabled, st, args.userID,
                                          TrimSpace(args.question), embed, http,
                                          ranking)
        request == << Call("chat", <<>>, <<>>, Len(built.messages)) >>
        choices == Candidates(chat)
    IN  IF built.err # <<>>
        THEN [err |-> built.err, calls |-> built.calls, answer |-> <<>>]
        ELSE IF chat = "fail"
        THEN [err |-> <<"llm request failed", "provider error">>,
              calls |-> built.calls \o request, answer |-> <<>>]
        ELSE IF Len(choices) = 0
        THEN [err |-> <<"no answer returned">>, calls |-> built.calls \o request,
              answer |-> <<>>]
        ELSE [err |-> <<>>, calls |-> built.calls \o request,
              answer |-> << choices[Len(choices)] >>]

\* QAService.Ask
Ask(enabled, st, args, embed, http, ranking, chat) ==
    IF args.userID = 0
    THEN [err |-> <<"invalid user">>, calls |-> <<>>, answer |-> <<>>]
    ELSE IF ~args.configured
    THEN [err |-> <<"llm client not configured">>, calls |-> <<>>, answer |-> <<>>]
    ELSE IF TrimSpace(args.question) = <<>>
    THEN [err |-> <<"question is empty">>, calls |-> <<>>, answer |-> <<>>]
    ELSE
    LET built == buildMessagesWithContext(enabled, st, args.userID,
                                          TrimSpace(args.question), embed, http,
                                          ranking)
        request == << Call("chat", <<>>, <<>>, Len(built.messages)) >>
        choices == Candidates(chat)
    IN  IF built.err # <<>>
        THEN [err |-> built.err, calls |-> built.calls, answer |-> <<>>]
        ELSE IF chat = "fail"
        THEN [err |-> <<"llm request failed", "provider error">>,
              calls |-> built.calls \o request, answer |-> <<>>]
        ELSE IF Len(choices) = 0
        THEN [err |-> <<"no answer returned">>, calls |-> built.calls \o request,
              answer |-> <<>>]
        ELSE [err |-> <<>>, calls |-> built.calls \o request,
              answer |-> << choices[1] >>]

\* A frame written to the client.
Frame(event, data) == [event |-> event, data |-> data]

\* The chunk callback without its look at ctx.Done() (a mutant of WriteChunk).
WriteChunkUnchecked(delta, n, failAt, cancelled) ==
    IF n = failAt
    THEN [err |-> <<"callback error">>, frames |-> <<>>]
    ELSE [err |-> <<>>, frames |-> << Frame("chunk", delta) >>]

\* The chunk callback of QAHandler.AskStream on its n-th invocation:
\* [err, frames].  The write to the client fails on invocation failAt.
WriteChunk(delta, n, failAt, cancelled) ==
    IF cancelled
    THEN [err |-> <<"context canceled">>, frames |-> <<>>]
    ELSE IF n = failAt
    THEN [err |-> <<"callback error">>, frames |-> <<>>]
    ELSE [err |-> <<>>, frames |-> << Frame("chunk", delta) >>]

\* What stream.Recv returns for a stream that is cut off.
RecvAborted(pos, written) ==
    [returned |-> TRUE, pos |-> pos, written |-> written, frames |-> <<>>,
     err |-> <<"stream error", "context canceled">>]

\* What stream.Recv returns at the end of the provider's stream.
RecvEnd(end, pos, written) ==
    [returned |-> TRUE, pos |-> pos, written |-> written, frames |-> <<>>,
     err |-> IF end = "eof" THEN <<>> ELSE <<"stream error", "provider error">>]

\* One pass of the loop with the callback's error dropped (a mutant of
\* AskStreamRecv).
AskStreamRecvSwallow(script, end, pos, written, failAt, cancelled, aborted) ==
    IF aborted THEN RecvAborted(pos, written)
    ELSE IF pos >= Len(script) THEN RecvEnd(end, pos, written)
    ELSE LET response == script[pos + 1]
             invoked == response.choices > 0 /\ response.delta # <<>>
             after == IF invoked THEN Append(written, response.delta) ELSE written
             cb == WriteChunk(response.delta, Len(after), failAt, cancelled)
         IN  [returned |-> FALSE, pos |-> pos + 1, written |-> after,
              frames |-> IF invoked THEN cb.frames ELSE <<>>, err |-> <<>>]

\* One pass of the loop with the test of the delta left out (a mutant of
\* AskStreamRecv).
AskStreamRecvEveryDelta(script, end, pos, written, failAt, cancelled, aborted) ==
    IF aborted THEN RecvAborted(pos, written)
    ELSE IF pos >= Len(script) THEN RecvEnd(end, pos, written)
    ELSE LET response == script[pos + 1]
             invoked == response.choices > 0
             after == IF invoked THEN Append(written, response.delta) ELSE written
             cb == WriteChunk(response.delta, Len(after), failAt, cancelled)
             failed == invoked /\ cb.err # <<>>
         IN  [returned |-> failed, pos |-> pos + 1, written |-> after,
              frames |-> IF invoked THEN cb.frames ELSE <<>>,
              err |-> IF failed THEN <<"failed to write chunk">> \o cb.err ELSE <<>>]

\* One pass of AskStream's loop: stream.Recv, then onChunk for a non-empty
\* delta.  [returned, pos, written, frames, err]
AskStreamRecv(script, end, pos, written, failAt, cancelled, aborted) ==
    IF aborted THEN RecvAborted(pos, written)
    ELSE IF pos >= Len(script) THEN RecvEnd(end, pos, written)
    ELSE LET response == script[pos + 1]
             invoked == response.choices > 0 /\ response.delta # <<>>
             after == IF invoked THEN Append(written, response.delta) ELSE written
             cb == WriteChunk(response.delta, Len(after), failAt, cancelled)
             failed == invoked /\ cb.err # <<>>
         IN  [returned |-> failed, pos |-> pos + 1, written |-> after,
              frames |-> IF invoked THEN cb.frames ELSE <<>>,
              err |-> IF failed THEN <<"failed to write chunk">> \o cb.err ELSE <<>>]

\* defer stream.Close() left out (a mutant of DeferredClose).
DeferredCloseNever(returned) == 0

\* defer stream.Close(): the number of Close calls of a pass of the loop.
DeferredClose(returned) == IF returned THEN 1 ELSE 0

\* The handler reporting every outcome as a completion (a mutant of
\* StreamTerminal).
StreamTerminalAlwaysDone(err) == << Frame("done", <<>>) >>

\* What QAHandler.AskStream writes once the service has returned err.
StreamTerminal(err) ==
    IF err = <<>> THEN << Frame("done", <<>>) >>
    ELSE IF err = <<"context canceled">> \/ err = <<"context deadline exceeded">>
    THEN <<>>
    ELSE << Frame("error", err) >>

\* What both handlers answer before they call the service: [done, frames].
HandlerChecks(args) ==
    IF args.request = "noUser"
    THEN [done |-> TRUE, frames |-> << Frame("json401", <<"user not found in context">>) >>]
    ELSE IF args.request = "badJSON"
    THEN [done |-> TRUE, frames |-> << Frame("json400", <<"bind error">>) >>]
    ELSE [done |-> FALSE, frames |-> <<>>]

\* ----------------------------------- the question-answering specification

StreamInit ==
    /\ ragEnabled \in BOOLEAN
    /\ RagIdle
    /\ ChunkIdle
    /\ ClientIdle
    /\ RaceIdle
    /\ asArgs \in StreamArgs \cup AskArgs
    /\ asScript \in IF asArgs.mode = "stream" /\ PassesChecks(asArgs)
                    THEN Scripts ELSE {<<>>}
    /\ asEnd \in IF asArgs.mode = "stream" /\ PassesChecks(asArgs)
                 THEN {"eof", "error"} ELSE {"eof"}
    /\ asFailAt \in IF asArgs.mode = "stream" /\ PassesChecks(asArgs)
                    THEN 0..MaxFrags ELSE {0}
    /\ asPc = "start"
    /\ asPos = 0
    /\ asWritten = <<>>
    /\ asRet = <<>>
    /\ asCalls = <<>>
    /\ asClosed = 0
    /\ asOpened = FALSE
    /\ asCancelled = FALSE
    /\ asFrames = <<>>
    /\ asAnswer = <<>>
    /\ asChat \in IF asArgs.mode = "ask" /\ PassesChecks(asArgs)
                 THEN ChatOutcomes ELSE {"one"}

\* POST /qa/ask/stream up to the loop of AskStream: the handler's checks, then
\* the service's checks, the prompt and the stream request.  Requests sent
\* with a cancelled context fail.
StreamCall ==
    /\ asPc = "start"
    /\ asArgs.mode = "stream"
    /\ \E embed \in EmbedOutcomesShort, http \in ReadOutcomes, openOk \in BOOLEAN :
        /\ NotDrawn(ragEnabled /\ PassesChecks(asArgs) /\ ~asCancelled, embed,
                    IF asCancelled THEN "fail" ELSE "exact")
        /\ NotDrawn(ragEnabled /\ PassesChecks(asArgs) /\ embed = "exact", http, "ok")
        /\ NotDrawn(PassesChecks(asArgs) /\ ~asCancelled /\ embed = "exact"
                        /\ http = "ok", openOk, ~asCancelled)
        /\ \E h \in {HandlerChecks(asArgs)},
              r \in {AskStreamOpen(ragEnabled, store, asArgs, embed, http,
                                   [rot |-> 0, rev |-> FALSE], openOk)} :
            IF h.done
            THEN /\ asFrames' = h.frames
                 /\ asPc' = "finished"
                 /\ UNCHANGED <<asCalls, asRet, asOpened>>
            ELSE /\ asCalls' = r.calls
                 /\ asRet' = r.err
                 /\ asOpened' = r.opened
                 /\ asPc' = IF r.opened THEN "recv" ELSE "returned"
                 /\ UNCHANGED asFrames
    /\ UNCHANGED <<ragVars, chunkVars, clientVars, raceVars, asArgs, asScript, asEnd, asFailAt, asPos,
                   asWritten, asClosed, asCancelled, asAnswer, asChat>>

\* One pass of the loop; on the way out the deferred stream.Close runs.  Once
\* the context is cancelled stream.Recv either still delivers what it holds
\* or fails.
StreamRecv ==
    /\ asPc = "recv"
    /\ \E aborted \in BOOLEAN :
        /\ NotDrawn(asCancelled, aborted, FALSE)
        /\ \E r \in {AskStreamRecv(asScript, asEnd, asPos, asWritten, asFailAt,
                                   asCancelled, aborted)} :
            /\ asPos' = r.pos
            /\ asWritten' = r.written
            /\ asFrames' = asFrames \o r.frames
            /\ asRet' = r.err
            /\ asPc' = IF r.returned THEN "returned" ELSE "recv"
            /\ asClosed' = asClosed + DeferredClose(r.returned)
    /\ UNCHANGED <<ragVars, chunkVars, clientVars, raceVars, asArgs, asScript, asEnd, asFailAt, asCalls,
                   asOpened, asCancelled, asAnswer, asChat>>

\* The client of a streaming request goes away: the request's context is
\* cancelled.
StreamCancel ==
    /\ asArgs.mode = "stream"
    /\ asPc \in {"start", "recv"}
    /\ ~asCancelled
    /\ asCancelled' = TRUE
    /\ UNCHANGED <<ragVars, chunkVars, clientVars, raceVars, asArgs, asScript, asEnd, asFailAt, asPc,
                   asPos, asWritten, asRet, asCalls, asClosed, asOpened, asFrames,
                   asAnswer, asChat>>

\* QAHandler.AskStream after the service has returned: the terminal event.
StreamFinish ==
    /\ asPc = "returned"
    /\ asArgs.mode = "stream"
    /\ asFrames' = asFrames \o StreamTerminal(asRet)
    /\ asPc' = "finished"
    /\ UNCHANGED <<ragVars, chunkVars, clientVars, raceVars, asArgs, asScript, asEnd, asFailAt, asPos,
                   asWritten, asRet, asCalls, asClosed, asOpened, asCancelled,
                   asAnswer, asChat>>

\* POST /qa/ask: QAHandler.Ask and QAService.Ask.
AskCall ==
    /\ asPc = "start"
    /\ asArgs.mode = "ask"
    /\ \E embed \in EmbedOutcomesShort, http \in ReadOutcomes :
        /\ NotDrawn(ragEnabled /\ PassesChecks(asArgs), embed, "exact")
        /\ NotDrawn(ragEnabled /\ PassesChecks(asArgs) /\ embed = "exact", http, "ok")
        /\ \E h \in {HandlerChecks(asArgs)},
              r \in {Ask(ragEnabled, store, asArgs, embed, http,
                         [rot |-> 0, rev |-> FALSE], asChat)} :
            IF h.done
            THEN /\ asFrames' = h.frames
                 /\ UNCHANGED <<asCalls, asRet, asAnswer>>
            ELSE /\ asCalls' = r.calls
                 /\ asRet' = r.err
                 /\ asAnswer' = r.answer
                 /\ asFrames' = IF r.err # <<>>
                                THEN << Frame("json400", r.err) >>
                                ELSE << Frame("json200", r.answer[1]) >>
    /\ asPc' = "finished"
    /\ UNCHANGED <<ragVars, chunkVars, clientVars, raceVars, asArgs, asScript, asEnd, asFailAt, asPos,
                   asWritten, asClosed, asOpened, asCancelled, asChat>>

StreamNext == StreamCall \/ StreamRecv \/ StreamCancel \/ StreamFinish \/ AskCall

SpecStream == StreamInit /\ [][StreamNext]_vars

\* ---------------------------------------- the EnsureCollection specification
\* Callers of Client.EnsureCollection running concurrently against one store.
\* Each request is one step; a caller is at "get" before its GET, at "create"
\* between the 404 and its POST, at "done" once EnsureCollection returned.

Callers == 1..MaxCallers

\* What a request may meet: an answer of the store, a failure of the
\* transport before the store saw the request, an answer lost on the way
\* back, or a status the store gives for a reason of its own.
RequestOutcomes == {"answered", "transport", "lost", "unexpected"}

\* The status of GET /collections/<name>, 0 for no response.
GetStatus(exists, outcome) ==
    CASE outcome = "answered"   -> IF exists THEN 200 ELSE 404
      [] outcome = "unexpected" -> 500
      [] OTHER                  -> 0

\* The status of POST /collections with the name alone: the store refuses a
\* name it already holds.
CreateStatus(exists, outcome) ==
    CASE outcome = "answered"   -> IF exists THEN 409 ELSE 200
      [] outcome = "unexpected" -> 500
      [] OTHER                  -> 0

\* The collection after a POST /collections that met outcome.
CreateEffect(exists, outcome) == exists \/ outcome \in {"answered", "lost"}

\* EnsureCollection after its GET ended with status: [pc, ret].
EnsureAfterGet(status) ==
    CASE status = 0   -> [pc |-> "done", ret |-> <<"failed to get collection", 0>>]
      [] status = 200 -> [pc |-> "done", ret |-> <<>>]
      [] status = 404 -> [pc |-> "create", ret |-> <<>>]
      [] OTHER        -> [pc |-> "done", ret |-> <<"unexpected status", status>>]

\* createCollection after its POST ended with status: [pc, ret].
CreateAfterPost(status) ==
    CASE status = 0 ->
            [pc |-> "done", ret |-> <<"failed to create collection", 0>>]
      [] status \in {200, 201} -> [pc |-> "done", ret |-> <<>>]
      [] OTHER ->
            [pc |-> "done", ret |-> <<"failed to create collection: status", status>>]

EnsureInit ==
    /\ ragEnabled = TRUE
    /\ RagIdle
    /\ ChunkIdle
    /\ ClientIdle
    /\ StreamIdle
    /\ collection \in BOOLEAN
    /\ proc = [p \in Callers |-> [pc |-> "get", ret |-> <<>>]]

\* Caller p sends its GET and acts on the status.
EnsureGet(p) ==
    /\ proc[p].pc = "get"
    /\ \E outcome \in RequestOutcomes :
          proc' = [proc EXCEPT ![p] = EnsureAfterGet(GetStatus(collection, outcome))]
    /\ UNCHANGED <<collection, ragVars, chunkVars, streamVars, clientVars>>

\* Caller p, answered 404, sends its POST.
EnsureCreate(p) ==
    /\ proc[p].pc = "create"
    /\ \E outcome \in RequestOutcomes :
          /\ proc' = [proc EXCEPT
                         ![p] = CreateAfterPost(CreateStatus(collection, outcome))]
          /\ collection' = CreateEffect(collection, outcome)
    /\ UNCHANGED <<ragVars, chunkVars, streamVars, clientVars>>

EnsureNext == \E p \in Callers : EnsureGet(p) \/ EnsureCreate(p)

SpecEnsure == EnsureInit /\ [][EnsureNext]_vars

\* ------------------------------- IndexDocument called by several goroutines
\* RAGService holds no lock: a call is two requests, the embedding and the
\* add, and the requests of concurrent calls interleave.  The document
\* indexed is rows[1].

Indexers == 1..MaxIndexers

\* IndexDocument up to the check of the embedding response: the caller's
\* next position and, when the call ends there, what it returns.
IndexBegin(enabled, docp, embed) ==
    IF ~enabled
    THEN [pc |-> "done", ret |-> IF docp = NilDoc THEN "panic" ELSE "ok",
          calls |-> <<>>]
    ELSE IF docp = NilDoc \/ docp[1].ID = 0 \/ docp[1].UserID = 0
    THEN [pc |-> "done", ret |-> "err", calls |-> <<>>]
    ELSE
    LET n == Len(chunkText(docp[1].Content, ChunkLen))
        embedCall == << Call("embed", <<>>, <<>>, n) >>
    IN  IF n = 0 THEN [pc |-> "done", ret |-> "ok", calls |-> <<>>]
        ELSE IF embed = "fail" \/ EmbedCount(embed, n) # n
        THEN [pc |-> "done", ret |-> "err", calls |-> embedCall]
        ELSE [pc |-> "add", ret |-> "ok", calls |-> embedCall]

\* IndexDocument from the building of the four lists on: the add request
\* against the store as it is when the request arrives.
IndexFinish(st, doc, add) ==
    LET chunks == chunkText(doc.Content, ChunkLen)
        n == Len(chunks)
        ids == [i \in 1..n |-> ChunkID(doc.ID, i - 1, doc.UserID)]
        embeddings == [i \in 1..n |-> "vector"]
        metadatas == [i \in 1..n |-> ChunkMetadata(doc, i - 1)]
    IN  Client_Add(st, ids, embeddings, chunks, metadatas, add)

\* The records of another user's document, in the store before the calls.
OtherRecords ==
    IndexFinish(EmptyStore, Document(2, 2, "T", <<"cb", "a">>, "ready"), "ok").store

\* The contents of the document indexed: blank, three chunks, or the other
\* user's text.
RaceContents == Contents \cup {<<"cb", "a">>}

\* The store is empty, holds another user's records, or holds this
\* document's records already.
RaceIndexInit ==
    /\ ragEnabled = TRUE
    /\ ChunkIdle
    /\ ClientIdle
    /\ StreamIdle
    /\ collection = TRUE
    /\ nextID = 2
    /\ created = NoRows
    /\ last = NoCall
    /\ \E content \in RaceContents :
          /\ rows = (1 :> Document(1, 1, "T", content, "processing"))
          /\ store \in {EmptyStore, OtherRecords,
                        IndexFinish(OtherRecords, rows[1], "ok").store}
    /\ proc = [p \in Indexers |-> [pc |-> "embed", ret |-> "ok", calls |-> <<>>]]

\* Caller p validates, chunks and sends its embedding request.
RaceEmbed(p) ==
    /\ proc[p].pc = "embed"
    /\ \E embed \in EmbedOutcomes :
          proc' = [proc EXCEPT ![p] = IndexBegin(ragEnabled, <<rows[1]>>, embed)]
    /\ UNCHANGED <<ragEnabled, store, rows, nextID, created, last, collection>>
    /\ UNCHANGED <<chunkVars, streamVars, clientVars>>

\* Caller p sends its add request.
RaceAdd(p) ==
    /\ proc[p].pc = "add"
    /\ \E add \in WriteOutcomes :
          \E added \in {IndexFinish(store, rows[1], add)} :
              /\ store' = added.store
              /\ proc' = [proc EXCEPT
                             ![p] = [pc |-> "done",
                                     ret |-> IF added.err THEN "err" ELSE "ok",
                                     calls |-> proc[p].calls \o added.calls]]
    /\ UNCHANGED <<ragEnabled, rows, nextID, created, last, collection>>
    /\ UNCHANGED <<chunkVars, streamVars, clientVars>>

RaceIndexNext == \E p \in Indexers : RaceEmbed(p) \/ RaceAdd(p)

SpecRaceIndex == RaceIndexInit /\ [][RaceIndexNext]_vars

\* ------------------------------------------- the prompt of a question
\* buildMessagesWithContext called by Ask or AskStream over a store that
\* holds records; proc[1] is the one call, with what was drawn for it.

\* Questions as Ask receives them; none is blank.
PromptQuestions == {Question, <<"a">>, <<"a", "sp", "a">>}

\* The store is empty, holds user 2's records, or user 1's three chunks too.
PromptStores ==
    {EmptyStore, OtherRecords,
     IndexFinish(OtherRecords, Document(1, 1, "T", <<"a", "c3", "cb", "a", "a", "a", "sp", "a">>, "ready"),
                 "ok").store}

PromptInit ==
    /\ ragEnabled \in BOOLEAN
    /\ ChunkIdle
    /\ ClientIdle
    /\ StreamIdle
    /\ collection = TRUE
    /\ rows = NoRows
    /\ nextID = 1
    /\ created = NoRows
    /\ last = NoCall
    /\ store \in PromptStores
    /\ \E u \in Users, q \in PromptQuestions :
          proc = << [pc |-> "call", userID |-> u, question |-> q, embed |-> "exact",
                     http |-> "ok", ranking |-> [rot |-> 0, rev |-> FALSE],
                     out |-> [err |-> <<>>, messages |-> <<>>, calls |-> <<>>]] >>

\* trimmed := strings.TrimSpace(question), then buildMessagesWithContext.
PromptBuild ==
    /\ proc[1].pc = "call"
    /\ \E embed \in EmbedOutcomesShort, http \in ReadOutcomes, ranking \in Rankings :
        /\ NotDrawn(ragEnabled, embed, "exact")
        /\ NotDrawn(ragEnabled /\ embed = "exact", http, "ok")
        /\ NotDrawn(ragEnabled /\ embed = "exact" /\ http = "ok"
                        /\ Len(StoreGetIDs(store, RetrieveWhere(proc[1].userID))) > 1,
                    ranking, [rot |-> 0, rev |-> FALSE])
        /\ proc' = << [proc[1] EXCEPT
                          !.pc = "done", !.embed = embed, !.http = http,
                          !.ranking = ranking,
                          !.out = buildMessagesWithContext(ragEnabled, store,
                                      proc[1].userID, TrimSpace(proc[1].question),
                                      embed, http, ranking)] >>
    /\ UNCHANGED <<ragVars, collection, chunkVars, streamVars, clientVars>>

SpecPrompt == PromptInit /\ [][PromptBuild]_vars

\* ------------------- DocumentService.Create and Delete of the same document
\* The two handlers run in their own goroutines and share the table and the
\* store; neither holds a lock across its writes.  proc.create and
\* proc.delete are the two calls: the creator inserts the row (its id is 1),
\* indexes it and, when indexing failed, updates the status; the deleter is
\* Delete(userID 1, docID 1): enumerate the document's records, delete them,
\* delete the row.

RaceDocInit ==
    /\ ragEnabled \in BOOLEAN
    /\ ChunkIdle
    /\ ClientIdle
    /\ StreamIdle
    /\ collection = TRUE
    /\ rows = NoRows
    /\ nextID = 1
    /\ created = NoRows
    /\ last = NoCall
    /\ store \in {EmptyStore, OtherRecords}
    /\ \E content \in Contents :
          proc = [create |-> [pc |-> "persist", ret |-> "ok", ids |-> <<>>,
                              doc |-> Document(0, 1, "T", content, "ready")],
                  delete |-> [pc |-> "get", ret |-> "ok", ids |-> <<>>,
                              doc |-> Document(1, 1, "", <<>>, "")]]

\* Create: s.documentRepo.Create(doc)
RaceCreatePersist ==
    /\ proc.create.pc = "persist"
    /\ \E dbCreate \in BOOLEAN :
          /\ rows' = Repo_Create(rows, nextID, proc.create.doc, dbCreate)
          /\ nextID' = IF dbCreate THEN nextID + 1 ELSE nextID
          /\ proc' = [proc EXCEPT
                 !.create.doc.ID = IF dbCreate THEN nextID ELSE 0,
                 !.create.ret = IF dbCreate THEN "ok" ELSE "err",
                 !.create.pc = IF dbCreate /\ ragEnabled THEN "embed" ELSE "done"]
    /\ UNCHANGED <<ragEnabled, store, created, last, collection>>
    /\ UNCHANGED <<chunkVars, streamVars, clientVars>>

\* Create: IndexDocument up to the embedding check.
RaceCreateEmbed ==
    /\ proc.create.pc = "embed"
    /\ \E embed \in EmbedOutcomesShort :
          \E b \in {IndexBegin(ragEnabled, <<proc.create.doc>>, embed)} :
              proc' = [proc EXCEPT
                 !.create.pc = IF b.pc = "add" THEN "add"
                               ELSE IF b.ret = "ok" THEN "done" ELSE "update",
                 !.create.doc.Status = IF b.ret = "ok" THEN "ready"
                                       ELSE "indexing_failed"]
    /\ UNCHANGED <<ragEnabled, store, rows, nextID, created, last, collection>>
    /\ UNCHANGED <<chunkVars, streamVars, clientVars>>

\* Create: IndexDocument's add request.
RaceCreateAdd ==
    /\ proc.create.pc = "add"
    /\ \E add \in WriteOutcomes :
          \E added \in {IndexFinish(store, proc.create.doc, add)} :
              /\ store' = added.store
              /\ proc' = [proc EXCEPT
                     !.create.pc = IF added.err THEN "update" ELSE "done",
                     !.create.doc.Status = IF added.err THEN "indexing_failed"
                                           ELSE "ready"]
    /\ UNCHANGED <<ragEnabled, rows, nextID, created, last, collection>>
    /\ UNCHANGED <<chunkVars, streamVars, clientVars>>

\* Create: s.documentRepo.Update(doc) after a failed indexing.
RaceCreateUpdate ==
    /\ proc.create.pc = "update"
    /\ \E dbUpdate \in BOOLEAN :
          rows' = Repo_Update(rows, proc.create.doc, dbUpdate)
    /\ proc' = [proc EXCEPT !.create.pc = "done"]
    /\ UNCHANGED <<ragEnabled, store, nextID, created, last, collection>>
    /\ UNCHANGED <<chunkVars, streamVars, clientVars>>

\* Delete: DeleteDocument's GetIDsByMetadata; with RAG disabled, or when the
\* call fails or finds nothing, the deleter goes on to the row.
RaceDeleteGet ==
    /\ proc.delete.pc = "get"
    /\ \E get \in ReadOutcomes :
          /\ NotDrawn(ragEnabled, get, "ok")
          /\ \E found \in {Client_GetIDsByMetadata(store,
                               DeleteWhere(proc.delete.doc.ID, proc.delete.doc.UserID),
                               get)} :
                proc' = [proc EXCEPT
                   !.delete.ids = IF ragEnabled THEN found.ids ELSE <<>>,
                   !.delete.pc = IF ragEnabled /\ ~found.err /\ Len(found.ids) > 0
                                 THEN "del" ELSE "row"]
    /\ UNCHANGED <<ragEnabled, store, rows, nextID, created, last, collection>>
    /\ UNCHANGED <<chunkVars, streamVars, clientVars>>

\* Delete: DeleteDocument's Client.Delete; its error is only logged.
RaceDeleteDel ==
    /\ proc.delete.pc = "del"
    /\ \E del \in WriteOutcomes :
          store' = Client_Delete(store, proc.delete.ids, del).store
    /\ proc' = [proc EXCEPT !.delete.pc = "row"]
    /\ UNCHANGED <<ragEnabled, rows, nextID, created, last, collection>>
    /\ UNCHANGED <<chunkVars, streamVars, clientVars>>

\* Delete: s.documentRepo.DeleteByIDAndUser(docID, userID)
RaceDeleteRow ==
    /\ proc.delete.pc = "row"
    /\ \E dbDelete \in BOOLEAN :
          /\ rows' = Repo_DeleteByIDAndUser(rows, proc.delete.doc.ID,
                                            proc.delete.doc.UserID, dbDelete)
          /\ proc' = [proc EXCEPT !.delete.pc = "done",
                                  !.delete.ret = IF dbDelete THEN "ok" ELSE "err"]
    /\ UNCHANGED <<ragEnabled, store, nextID, created, last, collection>>
    /\ UNCHANGED <<chunkVars, streamVars, clientVars>>

RaceDocNext ==
    \/ RaceCreatePersist
    \/ RaceCreateEmbed
    \/ RaceCreateAdd
    \/ RaceCreateUpdate
    \/ RaceDeleteGet
    \/ RaceDeleteDel
    \/ RaceDeleteRow

SpecRaceDoc == RaceDocInit /\ [][RaceDocNext]_vars

\* --------------------------------- DeleteDocument over a store with records
\* The store holds the records of any of three documents: document 1 of
\* user 1, document 2 of user 1, and a document of user 2 whose id is 1 too.

RECURSIVE StoreOf(_)
\* The store after IndexDocument of every document of a set.
StoreOf(docs) ==
    IF docs = {} THEN EmptyStore
    ELSE LET d == CHOOSE x \in docs : TRUE
         IN  IndexFinish(StoreOf(docs \ {d}), d, "ok").store

IndexedDocuments ==
    {Document(1, 1, "T", <<"a", "a", "a">>, "ready"),
     Document(2, 1, "T", <<"a", "sp", "a", "a">>, "ready"),
     Document(1, 2, "T", <<"c3", "cb", "a", "a">>, "ready")}

DeleteInit ==
    /\ ragEnabled \in BOOLEAN
    /\ ChunkIdle
    /\ ClientIdle
    /\ StreamIdle
    /\ RaceIdle
    /\ rows = NoRows
    /\ nextID = 1
    /\ created = NoRows
    /\ last = NoCall
    /\ store \in {StoreOf(docs) : docs \in SUBSET IndexedDocuments}

DeleteNext == RagDelete \/ Return

SpecDelete == DeleteInit /\ [][DeleteNext]_vars

\* -------------------------------------------------------------- properties

\* The ids of the store's records of document docID of user userID.
RecordsOf(docID, userID) ==
    {id \in DOMAIN store :
        /\ store[id].metadata.document_id = docID
        /\ store[id].metadata.user_id = userID}

\* The requests to api among the requests of the last operation.
CallsTo(api) == {i \in 1..Len(last.calls) : last.calls[i].api = api}

\* C1: every chunk RetrieveRelevantChunks(A, question, topK) returns is a
\* record of the store whose metadata user_id is A, and the one query it sends
\* carries the filter user_id == A, never an empty filter, whatever documents
\* the two users have indexed.
C1_RetrievalScopedToUser ==
    last.op = "RetrieveRelevantChunks" =>
        /\ \A i \in 1..Len(last.chunks) :
              /\ last.chunks[i].UserID = last.userID
              /\ \E id \in DOMAIN store :
                    /\ store[id].metadata.user_id = last.userID
                    /\ store[id].metadata.document_id = last.chunks[i].DocumentID
                    /\ store[id].metadata.chunk_index = last.chunks[i].Index
                    /\ store[id].document = last.chunks[i].Content
        /\ Cardinality(CallsTo("query")) <= 1
        /\ \A i \in CallsTo("query") :
              last.calls[i].where = << <<"user_id", last.userID>> >>

\* A retrieval for one user returned chunks while the store holds a record of
\* the other user with the very same text.
C1_Witness ==
    /\ last.op = "RetrieveRelevantChunks"
    /\ last.ret = "ok"
    /\ Len(last.chunks) >= 2
    /\ \E id \in DOMAIN store :
          /\ store[id].metadata.user_id # last.userID
          /\ store[id].document = last.chunks[1].Content

\* C2: in every reachable state every record of the store carries the id and
\* the owner of a document that was inserted, user_id being that document's
\* UserID, and chunk_index the position of the record's text among the
\* document's chunks; the record's id is "<document id>-<chunk index>-<user id>".
C2_MetadataMatchesOwner ==
    \A id \in DOMAIN store :
        LET m == store[id].metadata IN
        /\ DOMAIN m = {"document_id", "user_id", "chunk_index", "title"}
        /\ m.document_id \in DOMAIN created
        /\ m.user_id = created[m.document_id].UserID
        /\ m.title = created[m.document_id].Title
        /\ LET chunks == chunkText(created[m.document_id].Content, ChunkLen)
           IN  /\ m.chunk_index \in 0..(Len(chunks) - 1)
               /\ store[id].document = chunks[m.chunk_index + 1]
        /\ id = Digits(m.document_id) \o <<"-">> \o Digits(m.chunk_index)
                    \o <<"-">> \o Digits(m.user_id)

\* The store holds records of documents of two owners, one of them with a
\* chunk index other than 0 and an owner id that is not the document id.
C2_Witness ==
    /\ \E id1, id2 \in DOMAIN store :
          store[id1].metadata.user_id # store[id2].metadata.user_id
    /\ \E id \in DOMAIN store :
          /\ store[id].metadata.chunk_index = 1
          /\ store[id].metadata.user_id # store[id].metadata.document_id

\* C3: a DeleteDocument(docID, userID) that returns success with RAG enabled
\* leaves no record of (docID, userID); it first asks for the ids matching
\* document_id == docID AND user_id == userID and then, if there are any,
\* deletes exactly the ids the store holds for that pair, in one request.
C3_DeleteLeavesNoRecord ==
    [][ (ragEnabled /\ last'.op = "DeleteDocument" /\ last'.ret = "ok") =>
          LET docID == last'.docID
              userID == last'.userID
              before == RecordsOf(docID, userID)
              calls == last'.calls
          IN  /\ \A id \in DOMAIN store' :
                    ~ /\ store'[id].metadata.document_id = docID
                      /\ store'[id].metadata.user_id = userID
              /\ calls # <<>>
              /\ calls[1] = Call("get", <<>>,
                                 << <<"document_id", docID>>, <<"user_id", userID>> >>, 0)
              /\ IF before = {}
                 THEN Len(calls) = 1 /\ store' = store
                 ELSE /\ Len(calls) = 2
                      /\ calls[2].api = "delete"
                      /\ Range(calls[2].ids) = before
                      /\ Len(calls[2].ids) = Cardinality(before)
                      /\ DOMAIN store' = DOMAIN store \ before
      ]_vars

\* A successful DeleteDocument sent its delete request and left the records
\* of another document in the store.
C3_Witness ==
    /\ ragEnabled
    /\ last.op = "DeleteDocument"
    /\ last.ret = "ok"
    /\ Len(last.calls) = 2
    /\ Len(last.calls[2].ids) >= 2
    /\ DOMAIN store # {}

\* C4 (as stated): whenever DocumentService.Delete(userID, docID) returns
\* success the document row is gone and the store holds no record of
\* (docID, userID), for every outcome of the enumeration and delete requests.
C4_Original ==
    (last.op = "Delete" /\ last.ret = "ok") =>
        /\ ~ \E id \in DOMAIN rows : id = last.docID /\ rows[id].UserID = last.userID
        /\ RecordsOf(last.docID, last.userID) = {}

\* C5 (as stated): when IndexDocument fails during DocumentService.Create the
\* row stays in the table and, once Create has returned, the status stored in
\* the row is indexing_failed, for every outcome of the status update.
C5_Original ==
    (last.op = "Create" /\ last.ret = "ok"
        /\ last.docp[1].Status = "indexing_failed") =>
        LET doc == last.docp[1]
        IN  /\ doc.ID \in DOMAIN rows
            /\ rows[doc.ID].Status = "indexing_failed"

\* C7 (as stated): while RAG is disabled IndexDocument and DeleteDocument
\* return success and RetrieveRelevantChunks returns no chunk and no error,
\* for every input; none sends a request and the store is left as it was.
C7_Original ==
    (~ragEnabled /\ last.op \in {"IndexDocument", "DeleteDocument",
                                 "RetrieveRelevantChunks"}) =>
        /\ last.ret = "ok"
        /\ last.calls = <<>>
        /\ last.chunks = <<>>
        /\ store = EmptyStore

\* C8: every successful IndexDocument sends its add request with the ids
\* "<document id>-<chunk index>-<user id>", one per chunk position in order;
\* when the store already holds the records of an earlier pass over the same
\* unmodified document, the ids sent are the ids of those records and the
\* store after the pass equals the store before it: nothing is duplicated.
C8_ReindexOverwrites ==
    [][ (/\ ragEnabled
         /\ last'.op = "IndexDocument" /\ last'.ret = "ok"
         /\ last'.docp # NilDoc) =>
          LET doc == last'.docp[1]
              before == RecordsOf(doc.ID, doc.UserID)
          IN  \A c \in 1..Len(last'.calls) :
                last'.calls[c].api = "add" =>
                    /\ \A i \in 1..Len(last'.calls[c].ids) :
                          last'.calls[c].ids[i] =
                              Digits(doc.ID) \o <<"-">> \o Digits(i - 1) \o <<"-">>
                                  \o Digits(doc.UserID)
                    /\ before # {} =>
                          /\ Range(last'.calls[c].ids) = before
                          /\ Len(last'.calls[c].ids) = Cardinality(before)
                          /\ store' = store
      ]_vars

\* A document of three chunks whose three records were in the store was
\* indexed again with success, and the store still holds exactly three
\* records of it.
C8_Witness ==
    /\ ragEnabled
    /\ last.op = "IndexDocument"
    /\ last.ret = "ok"
    /\ last.had = 3
    /\ Len(last.calls) = 2
    /\ Len(last.calls[2].ids) = 3
    /\ Cardinality(RecordsOf(last.docp[1].ID, last.docp[1].UserID)) = 3

\* The parts of C6 that do not depend on the encoding of the text: zero chunks
\* for a blank text or a non-positive maxLen; otherwise no chunk is empty, no
\* chunk has more than maxLen characters and every chunk but the last has
\* exactly maxLen characters.
ChunkShape ==
    IF TrimSpace(ctText) = <<>> \/ ctMaxLen <= 0
    THEN ctOut = <<>>
    ELSE /\ ctOut # <<>>
         /\ \A i \in 1..Len(ctOut) :
               /\ ctOut[i] # <<>>
               /\ RuneCount(ctOut[i]) <= ctMaxLen
               /\ i < Len(ctOut) => RuneCount(ctOut[i]) = ctMaxLen

\* C6 (as stated): for all text t and all maxLen, chunkText returns zero chunks
\* when t is blank or maxLen <= 0; otherwise the chunks concatenated in order are
\* the trimmed t exactly, every chunk has at most maxLen characters, every chunk
\* but the last has exactly maxLen characters, and no chunk is empty.
C6_Original ==
    ctPc = "done" =>
        /\ ChunkShape
        /\ (TrimSpace(ctText) # <<>> /\ ctMaxLen > 0)
              => Flatten(ctOut) = TrimSpace(ctText)

\* C6 (amended): as C6, except that the concatenation reproduces the trimmed t
\* exactly when t is valid UTF-8; in general it is the trimmed t with every
\* invalid byte replaced by the encoding of U+FFFD.
C6_ChunkRoundTrip ==
    ctPc = "done" =>
        /\ ChunkShape
        /\ (TrimSpace(ctText) # <<>> /\ ctMaxLen > 0) =>
              /\ Flatten(ctOut) = EncodeRunes(DecodeRunes(TrimSpace(ctText)))
              /\ ValidUTF8(ctText) => Flatten(ctOut) = TrimSpace(ctText)

\* A valid text with surrounding whitespace and a multi-byte character, cut
\* into several chunks, one of them longer than maxLen in bytes.
C6_Witness ==
    /\ ctPc = "done"
    /\ ValidUTF8(ctText)
    /\ TrimSpace(ctText) # ctText
    /\ Len(ctOut) >= 2
    /\ \E i \in 1..Len(ctOut) : Len(ctOut[i]) > ctMaxLen

RECURSIVE NonEmptyDeltas(_)
\* The non-empty deltas of a sequence of fragments, in order.
NonEmptyDeltas(script) ==
    IF script = <<>> THEN <<>>
    ELSE (IF Head(script).choices > 0 /\ Head(script).delta # <<>>
          THEN <<Head(script).delta>> ELSE <<>>) \o NonEmptyDeltas(Tail(script))

\* C9: at every moment onChunk has been invoked once for each non-empty delta
\* read so far, in arrival order, and for nothing else; when no invocation
\* fails and the provider ends the stream with its completion signal AskStream
\* returns success having invoked onChunk for exactly the non-empty deltas of
\* the whole stream.
C9_OneCallPerDelta ==
    /\ asFailAt = 0 =>
          asWritten = NonEmptyDeltas(SubSeq(asScript, 1, asPos))
    /\ (asPc \in {"returned", "finished"} /\ asClosed = 1 /\ asFailAt = 0
            /\ asEnd = "eof" /\ ~asCancelled) =>
          /\ asRet = <<>>
          /\ asPos = Len(asScript)
          /\ asWritten = NonEmptyDeltas(asScript)

\* The provider sent a, an empty delta and b, then completed: AskStream
\* returned success after the two invocations a, b.
C9_Witness ==
    /\ asPc = "returned"
    /\ ~asCancelled
    /\ asRet = <<>>
    /\ asEnd = "eof"
    /\ Len(asScript) = 3
    /\ asScript[2].delta = <<>>
    /\ asWritten = << <<"a">>, <<"b">> >>

\* C10: when the n-th invocation of onChunk fails AskStream has returned an
\* error that wraps the callback's error, it has read no fragment past the
\* one it was writing, and onChunk is never invoked an (n+1)-th time.
C10_CallbackErrorAborts ==
    asFailAt > 0 =>
        /\ Len(asWritten) <= asFailAt
        /\ Len(asWritten) = asFailAt =>
              /\ asPc \in {"returned", "finished"}
              /\ Len(asRet) = 2
              /\ asRet[2] = IF asCancelled THEN "context canceled" ELSE "callback error"
              /\ asPos >= 1
              /\ asScript[asPos].delta = asWritten[asFailAt]
              /\ Len(NonEmptyDeltas(SubSeq(asScript, 1, asPos))) = asFailAt

\* The second invocation failed and AskStream returned although the provider
\* had one more non-empty delta to send.
C10_Witness ==
    /\ asPc = "returned"
    /\ ~asCancelled
    /\ asFailAt = 2
    /\ Len(asWritten) = 2
    /\ asPos < Len(asScript)
    /\ NonEmptyDeltas(SubSeq(asScript, asPos + 1, Len(asScript))) # <<>>

\* C11 (as stated): once the request's context is cancelled no further chunk
\* frame is written, onChunk is not invoked again, and AskStream terminates
\* with an error instead of reading the provider's stream to its end.
C11_Original ==
    [][ (asCancelled /\ asPc = "recv") =>
          /\ asFrames' = asFrames
          /\ asWritten' = asWritten
          /\ asPc' = "returned" => asRet' # <<>>
      ]_vars

\* C11 (amended): once the request's context is cancelled no pass of the loop
\* writes a chunk frame; onChunk is invoked at most once more, that invocation
\* returns the cancellation error and AskStream returns at once with an error
\* wrapping it; AskStream returns success after the cancellation only when
\* stream.Recv still delivered the rest of the stream, up to the completion
\* signal, and none of it carried a non-empty delta.
C11_CancelStopsWrites ==
    [][ (asCancelled /\ asPc = "recv") =>
          /\ asFrames' = asFrames
          /\ asWritten' # asWritten =>
                /\ Len(asWritten') = Len(asWritten) + 1
                /\ asPc' = "returned"
                /\ asRet' = <<"failed to write chunk", "context canceled">>
                /\ asPos' = asPos + 1
          /\ (asPc' = "returned" /\ asRet' = <<>>) =>
                /\ asEnd = "eof"
                /\ asPos = Len(asScript)
                /\ asWritten' = asWritten
          /\ asPc' = "returned" => asClosed' = 1
      ]_vars

\* The client went away after the first chunk frame: the second invocation of
\* onChunk wrote nothing and AskStream returned the cancellation error with a
\* non-empty delta still to come.
C11_Witness ==
    /\ asCancelled
    /\ asPc = "returned"
    /\ asRet = <<"failed to write chunk", "context canceled">>
    /\ Len(asWritten) = 2
    /\ Len(asFrames) = 1
    /\ asFailAt = 0
    /\ NonEmptyDeltas(SubSeq(asScript, asPos + 1, Len(asScript))) # <<>>

\* C12: on every way out of AskStream after the stream was opened (completion,
\* provider read error, callback failure, cancellation) the stream handle has
\* been closed exactly once, and it is not closed while the loop still runs;
\* when the stream was never opened (a failed check, a failed prompt
\* assembly, a failed open) nothing is closed.
C12_ClosedExactlyOnce ==
    /\ asPc = "recv" => (asOpened /\ asClosed = 0)
    /\ (asArgs.mode = "stream" /\ asPc \in {"returned", "finished"}) =>
          asClosed = IF asOpened THEN 1 ELSE 0
    /\ ~asOpened => asClosed = 0

\* AskStream left its loop on the cancellation of the request, the stream
\* closed once.
C12_Witness ==
    /\ asPc = "returned"
    /\ asOpened
    /\ asCancelled
    /\ asRet = <<"stream error", "context canceled">>
    /\ asClosed = 1

\* The positions of asFrames that hold a terminal event.
TerminalPositions ==
    { i \in 1..Len(asFrames) : asFrames[i].event \in {"done", "error"} }

\* C13: the streaming handler writes a done event only if AskStream returned
\* success; a stream that failed for a reason other than cancellation ends
\* with an error event and carries no done event; at most one terminal event
\* is written, and no chunk event follows it.
C13_TerminalEvents ==
    asArgs.mode = "stream" =>
        /\ (\E i \in TerminalPositions : asFrames[i].event = "done") =>
              (asPc = "finished" /\ asRet = <<>> /\ HandlerChecks(asArgs).done = FALSE)
        /\ (asPc = "finished" /\ asRet # <<>> /\ ~asCancelled) =>
              /\ asFrames # <<>>
              /\ asFrames[Len(asFrames)] = Frame("error", asRet)
              /\ \A i \in 1..Len(asFrames) : asFrames[i].event # "done"
        /\ Cardinality(TerminalPositions) <= 1
        /\ TerminalPositions \subseteq {Len(asFrames)}
        /\ asPc # "finished" => TerminalPositions = {}

\* A stream that delivered a chunk and then failed at the provider: the
\* chunk event, then the error event.
C13_Witness ==
    /\ asArgs.mode = "stream"
    /\ asPc = "finished"
    /\ ~asCancelled
    /\ asRet = <<"stream error", "provider error">>
    /\ Len(asFrames) = 2
    /\ asFrames[1].event = "chunk"
    /\ asFrames[2].event = "error"

\* The error of the first precondition that a request fails, in the order
\* user, chat credential, question; <<>> when it passes all three.
PreconditionError(args) ==
    IF args.userID = 0 THEN <<"invalid user">>
    ELSE IF ~args.configured THEN <<"llm client not configured">>
    ELSE IF TrimSpace(args.question) = <<>> THEN <<"question is empty">>
    ELSE <<>>

\* C14: Ask and AskStream apply the same three checks in the same order (user
\* 0: invalid input; no chat credential: configuration error; blank question:
\* invalid input), and a request that fails one of them gets the error of the
\* first check it fails, makes no retrieval, embedding or chat call, writes
\* nothing to the stream and never has onChunk invoked.
C14_PreconditionsFirst ==
    (/\ asArgs.request = "ok"
     /\ asPc \in {"returned", "finished"}
     /\ PreconditionError(asArgs) # <<>>) =>
        /\ asRet = PreconditionError(asArgs)
        /\ asCalls = <<>>
        /\ asWritten = <<>>
        /\ asAnswer = <<>>
        /\ ~asOpened
        /\ \A i \in 1..Len(asFrames) : asFrames[i].event # "chunk"

\* A streaming request that fails the second and the third check, answered
\* with the error of the second.
C14_Witness ==
    /\ asArgs.mode = "stream"
    /\ asArgs.request = "ok"
    /\ asArgs.userID = 1
    /\ ~asArgs.configured
    /\ TrimSpace(asArgs.question) = <<>>
    /\ asPc = "returned"
    /\ asRet = <<"llm client not configured">>

\* The chat-completion requests among the requests of the question.
ChatCalls == {i \in 1..Len(asCalls) : asCalls[i].api = "chat"}

\* C15: Ask sends one chat-completion request and never a second one; when
\* the provider answers it with zero candidates Ask fails with an error and
\* returns no answer; when it answers with one or more candidates Ask returns
\* exactly the text of the first.
C15_FirstCandidate ==
    (asArgs.mode = "ask" /\ asArgs.request = "ok" /\ asPc = "finished") =>
        /\ Cardinality(ChatCalls) <= 1
        /\ asRet # <<>> => asAnswer = <<>>
        /\ (PreconditionError(asArgs) = <<>> /\ asRet # <<"retrieval failed">>) =>
              /\ Cardinality(ChatCalls) = 1
              /\ asCalls[Len(asCalls)].api = "chat"
              /\ asChat = "none" =>
                    (asRet = <<"no answer returned">> /\ asAnswer = <<>>)
              /\ Len(Candidates(asChat)) >= 1 =>
                    /\ asRet = <<>>
                    /\ asAnswer = << Candidates(asChat)[1] >>
                    /\ asFrames = << Frame("json200", Candidates(asChat)[1]) >>

\* The provider answered with two candidates and Ask returned the first.
C15_Witness ==
    /\ asArgs.mode = "ask"
    /\ asPc = "finished"
    /\ asChat = "two"
    /\ Cardinality(ChatCalls) = 1
    /\ asRet = <<>>
    /\ asAnswer = << <<"y">> >>

\* The query requests among the requests of the last operation.
QueryCalls == CallsTo("query")

\* C16: RetrieveRelevantChunks queries the store with n_results = topK when
\* topK is positive and with 5 when topK is zero or negative, and it returns
\* at most that many chunks: the entries of the first result list of the
\* store's answer, in the order of that list.
C16_TopK ==
    (last.op = "RetrieveRelevantChunks") =>
        LET n == IF last.topK > 0 THEN last.topK ELSE 5
            resp == StoreQuery(store, n, << <<"user_id", last.userID>> >>, last.ranking)
            ids == resp.IDs[1]
        IN  /\ Cardinality(QueryCalls) <= 1
            /\ \A i \in QueryCalls : last.calls[i].n = n
            /\ Len(last.chunks) <= n
            /\ (last.ret = "ok" /\ QueryCalls # {}) =>
                  /\ Len(last.chunks) = Len(ids)
                  /\ \A i \in 1..Len(ids) :
                        /\ last.chunks[i].Content = store[ids[i]].document
                        /\ last.chunks[i].DocumentID = store[ids[i]].metadata.document_id
                        /\ last.chunks[i].Index = store[ids[i]].metadata.chunk_index

\* A user with six chunks in the store asked without topK and got five of
\* them, in the order of a ranking that is not the order of the ids.
C16_Witness ==
    /\ last.op = "RetrieveRelevantChunks"
    /\ last.ret = "ok"
    /\ last.topK = 0
    /\ last.ranking.rev
    /\ Len(StoreGetIDs(store, << <<"user_id", last.userID>> >>)) = 6
    /\ Len(last.chunks) = 5
    /\ \A i \in QueryCalls : last.calls[i].n = 5

\* The delete requests among the requests calls.
DeleteCalls(calls) == {i \in 1..Len(calls) : calls[i].api = "delete"}

\* C17: a DeleteDocument(docID, userID) on a pair without a record in the
\* store sends no delete request and leaves the store as it is, and it
\* returns success when its lookup is answered; after a DeleteDocument that
\* returned success a second one on the same pair returns success again, with
\* no delete request and the store unchanged; Client.Delete of an empty id
\* list returns success without a request.
C17_IdempotentDelete ==
    [][ (ragEnabled /\ last'.op = "DeleteDocument"
            /\ last'.docID # 0 /\ last'.userID # 0) =>
          LET docID == last'.docID
              userID == last'.userID
          IN  /\ RecordsOf(docID, userID) = {} =>
                    /\ DeleteCalls(last'.calls) = {}
                    /\ store' = store
                    /\ \A del \in WriteOutcomes :
                          DeleteDocument(TRUE, store, docID, userID, "ok", del).ret = "ok"
              /\ last'.ret = "ok" =>
                    \A del \in WriteOutcomes :
                        LET second == DeleteDocument(TRUE, store', docID, userID,
                                                     "ok", del)
                        IN  /\ second.ret = "ok"
                            /\ second.store = store'
                            /\ DeleteCalls(second.calls) = {}
              /\ \A http \in WriteOutcomes :
                    Client_Delete(store', <<>>, http)
                        = [err |-> FALSE, store |-> store', calls |-> <<>>]
      ]_vars

\* A document that was created with text was deleted from the index when no
\* record of it was left, with success and only the lookup sent, while the
\* store holds records of another document.
C17_Witness ==
    /\ ragEnabled
    /\ last.op = "DeleteDocument"
    /\ last.ret = "ok"
    /\ last.had = 0
    /\ Len(last.calls) = 1
    /\ last.calls[1].api = "get"
    /\ last.docID \in DOMAIN created
    /\ created[last.docID].UserID = last.userID
    /\ TrimSpace(created[last.docID].Content) # <<>>
    /\ store # EmptyStore

\* The metadata map holds the three numeric fields as numbers.
CompleteMetadata(metadata) ==
    \A key \in {"document_id", "user_id", "chunk_index"} :
        key \in DOMAIN metadata /\ metadata[key].type = "number"

\* C18 (as stated): of a query response with a result list, the entries whose
\* metadata lack document_id, user_id or chunk_index, or hold a value that is
\* not a number there, are left out of the chunks returned; the other entries
\* are returned in order, and the call does not fail.
C18_Original ==
    (/\ clOp = "convert"
     /\ clPc = "done"
     /\ Len(clIn.Documents) > 0
     /\ Len(clIn.Metadatas) > 0) =>
        LET documents == clIn.Documents[1]
            metadatas == clIn.Metadatas[1]
            Kept(i) == i <= Len(metadatas) /\ CompleteMetadata(metadatas[i])
            kept == SelectSeq([i \in 1..Len(documents) |-> i], Kept)
        IN  /\ clOut.ret = "ok"
            /\ Len(clOut.chunks) = Len(kept)
            /\ \A j \in 1..Len(kept) :
                  /\ clOut.chunks[j].Content = documents[kept[j]]
                  /\ clOut.chunks[j].DocumentID = metadatas[kept[j]].document_id.value
                  /\ clOut.chunks[j].UserID = metadatas[kept[j]].user_id.value
                  /\ clOut.chunks[j].Index = metadatas[kept[j]].chunk_index.value

\* C19 (as stated): Client.Add returns an error and sends no request whenever
\* the lengths of ids, embeddings, documents and metadatas are not all equal;
\* when the four lengths are equal it sends the records in one request.
C19_Original ==
    (clOp = "add" /\ clPc = "done") =>
        IF /\ Len(clIn.ids) = Len(clIn.embeddings)
           /\ Len(clIn.ids) = Len(clIn.documents)
           /\ Len(clIn.ids) = Len(clIn.metadatas)
        THEN /\ Len(clOut.calls) = 1
             /\ clOut.calls[1].api = "add"
             /\ clOut.calls[1].ids = clIn.ids
        ELSE /\ clOut.err
             /\ clOut.calls = <<>>
             /\ clOut.store = EmptyStore

\* The call recorded in call has an argument that the operation refuses: a
\* document with id or owner 0, a user 0 or a blank question, a pair with a 0.
InvalidInput(call) ==
    CASE call.op = "IndexDocument" ->
            call.docp # NilDoc /\ (call.docp[1].ID = 0 \/ call.docp[1].UserID = 0)
      [] call.op = "RetrieveRelevantChunks" ->
            call.userID = 0 \/ TrimSpace(call.question) = <<>>
      [] call.op = "DeleteDocument" ->
            call.docID = 0 \/ call.userID = 0
      [] OTHER -> FALSE

\* C20: with RAG enabled, an IndexDocument of a document whose id or owner is
\* 0, a RetrieveRelevantChunks with user 0 or a question that is empty after
\* trimming, and a DeleteDocument with docID 0 or userID 0 return an error,
\* send no request to the embedding provider or to the store, and leave the
\* store unchanged.
C20_ValidationFirst ==
    [][ (ragEnabled /\ InvalidInput(last')) =>
          /\ last'.ret = "err"
          /\ last'.calls = <<>>
          /\ last'.chunks = <<>>
          /\ store' = store
      ]_vars

\* With RAG enabled and records in the store, a DeleteDocument with docID 0
\* was refused without a request.
C20_Witness ==
    /\ ragEnabled
    /\ store # EmptyStore
    /\ last.op = "DeleteDocument"
    /\ last.docID = 0
    /\ last.userID = 1
    /\ last.ret = "err"
    /\ last.calls = <<>>

\* C21 (as stated): whatever the number of callers of EnsureCollection and
\* however their requests interleave, a caller that returned success leaves
\* the collection existing, and no caller returns an error for the sole
\* reason that the collection exists already: an error is a transport
\* failure or a status the store gave for another reason.
C21_Original ==
    \A p \in Callers :
        proc[p].pc = "done" =>
            /\ proc[p].ret = <<>> => collection
            /\ proc[p].ret # <<"failed to create collection: status", 409>>

\* The requests to api among calls.
CallsOf(calls, api) == {i \in 1..Len(calls) : calls[i].api = api}

\* C22: an IndexDocument of a valid document with RAG enabled sends at most
\* one embedding request and at most one add request, the embedding first;
\* with zero chunks it succeeds with no request; when the embedding request
\* fails or returns a number of vectors other than the number of chunks it
\* returns an error, sends no add request and leaves the store unchanged;
\* the add request, when sent, carries one id, text and metadata per chunk.
C22_OneEmbedOneAdd ==
    [][ (/\ ragEnabled
         /\ last'.op = "IndexDocument"
         /\ last'.docp # NilDoc
         /\ ~InvalidInput(last')) =>
          LET doc == last'.docp[1]
              chunks == chunkText(doc.Content, ChunkLen)
              calls == last'.calls
          IN  /\ Cardinality(CallsOf(calls, "embed")) <= 1
              /\ Cardinality(CallsOf(calls, "add")) <= 1
              /\ Len(calls) = Cardinality(CallsOf(calls, "embed"))
                                + Cardinality(CallsOf(calls, "add"))
              /\ CallsOf(calls, "add") # {} => CallsOf(calls, "embed") = {1}
              /\ CallsOf(calls, "add") = {} => store' = store
              /\ Len(chunks) = 0 => (last'.ret = "ok" /\ calls = <<>>)
              /\ Len(chunks) > 0 =>
                    /\ CallsOf(calls, "embed") = {1}
                    /\ calls[1].n = Len(chunks)
                    /\ last'.ret = "ok" => Len(calls) = 2
                    /\ \A embed \in {"fail", "fewer", "more"}, add \in WriteOutcomes :
                          LET r == IndexDocument(TRUE, store, last'.docp, embed, add)
                          IN  /\ r.ret = "err"
                              /\ CallsOf(r.calls, "add") = {}
                              /\ r.store = store
              /\ \A i \in CallsOf(calls, "add") :
                    /\ Len(calls[i].ids) = Len(chunks)
                    /\ calls[i].n = Len(chunks)
                    /\ last'.ret = "ok" =>
                          \A k \in 1..Len(chunks) :
                              /\ calls[i].ids[k] \in DOMAIN store'
                              /\ store'[calls[i].ids[k]].document = chunks[k]
      ]_vars

\* A document of three chunks was indexed with one embedding request for
\* three inputs and one add request of three records.
C22_Witness ==
    /\ ragEnabled
    /\ last.op = "IndexDocument"
    /\ last.ret = "ok"
    /\ Len(last.calls) = 2
    /\ last.calls[1].api = "embed"
    /\ last.calls[1].n = 3
    /\ last.calls[2].api = "add"
    /\ Len(last.calls[2].ids) = 3
    /\ last.calls[2].n = 3

\* C23: when concurrent IndexDocument calls on the same document have all
\* returned without error, the store holds for that document exactly what one
\* successful IndexDocument leaves: one record per chunk, under the chunk's
\* id, holding the chunk's text and metadata, and nothing else of that
\* document; the records of other documents are as they were.
C23_RaceLeavesOneIndex ==
    (\A p \in Indexers : proc[p].pc = "done" /\ proc[p].ret = "ok") =>
        LET doc == rows[1]
            chunks == chunkText(doc.Content, ChunkLen)
            single == IndexFinish(OtherRecords, doc, "ok").store
        IN  /\ Cardinality(RecordsOf(doc.ID, doc.UserID)) = Len(chunks)
            /\ \A i \in 1..Len(chunks) :
                  /\ ChunkID(doc.ID, i - 1, doc.UserID) \in DOMAIN store
                  /\ store[ChunkID(doc.ID, i - 1, doc.UserID)]
                        = [document |-> chunks[i],
                           metadata |-> ChunkMetadata(doc, i - 1)]
            /\ \A id \in RecordsOf(doc.ID, doc.UserID) : store[id] = single[id]
            /\ \A id \in DOMAIN store \ RecordsOf(doc.ID, doc.UserID) :
                  id \in DOMAIN OtherRecords /\ store[id] = OtherRecords[id]

\* Two calls on a three-chunk document both sent their add and both succeeded.
C23_Witness ==
    /\ \A p \in Indexers :
          proc[p].pc = "done" /\ proc[p].ret = "ok" /\ Len(proc[p].calls) = 2
    /\ Cardinality(RecordsOf(1, 1)) = 3

\* C24 (as stated): when AskStream returned because the request's context was
\* cancelled (the callback returned the context's error, or the provider read
\* was aborted by the cancellation), the streaming handler writes no terminal
\* event, neither an error event nor a done event.
C24_Original ==
    [][ ( /\ asPc = "returned"
          /\ asPc' = "finished"
          /\ asArgs.mode = "stream"
          /\ asCancelled
          /\ asRet # <<>>
          /\ asRet[Len(asRet)] = "context canceled" ) => asFrames' = asFrames
      ]_vars

\* C25: buildMessagesWithContext, when it returns messages, returns exactly
\* two: the system message, then the user message whose content is the trimmed
\* question; the system message is the prompt alone unless RAG is enabled and
\* the retrieval returned at least one chunk, and then it is the prompt, a
\* blank line, the header, the chunks in the order retrieved labelled 1..n,
\* and the footer; it returns no message only when the retrieval failed.
C25_TwoMessages ==
    proc # <<>> /\ proc[1].pc = "done" /\ "out" \in DOMAIN proc[1] =>
        LET call == proc[1]
            got == RetrieveRelevantChunks(ragEnabled, store, call.userID,
                                          TrimSpace(call.question), 5, call.embed,
                                          call.http, call.ranking)
            block == [k \in 1..Len(got.chunks) |-> <<"label", k, got.chunks[k].Content>>]
        IN  IF call.out.err # <<>>
            THEN ragEnabled /\ got.ret # "ok" /\ call.out.messages = <<>>
            ELSE /\ Len(call.out.messages) = 2
                 /\ call.out.messages[1].Role = "system"
                 /\ call.out.messages[2].Role = "user"
                 /\ call.out.messages[2].Content = TrimSpace(call.question)
                 /\ call.out.messages[1].Content =
                        IF ragEnabled /\ Len(got.chunks) > 0
                        THEN <<"systemPrompt", "\n\n", "contextHeader">> \o block
                                 \o <<"contextFooter">>
                        ELSE <<"systemPrompt">>

\* A question whose retrieval returned three chunks or more, not all alike, in
\* an order other than the store's: the system message carries them labelled
\* from 1 on.
C25_Witness ==
    /\ proc # <<>> /\ proc[1].pc = "done" /\ "out" \in DOMAIN proc[1]
    /\ proc[1].ranking = [rot |-> 1, rev |-> TRUE]
    /\ proc[1].out.err = <<>>
    /\ Len(proc[1].out.messages) = 2
    /\ Len(proc[1].out.messages[1].Content) >= 7
    /\ proc[1].out.messages[1].Content[6][2] = 3
    /\ proc[1].out.messages[1].Content[4][3] # proc[1].out.messages[1].Content[6][3]

\* C26: DocumentService.Create sends indexing requests only with RAG enabled
\* and only for a row it has just persisted, whose id is not zero; when the
\* row cannot be persisted it returns an error, sends nothing and changes
\* neither table nor store; when the row is persisted it returns the document
\* without error whatever indexing did, the returned status being
\* indexing_failed exactly when IndexDocument returned an error and ready
\* otherwise; IndexDocument leaves the table as it is.
C26_PersistThenIndex ==
    [][ /\ (last = NoCall /\ last'.op = "Create") =>
            /\ last'.calls # <<>> =>
                  /\ ragEnabled
                  /\ last'.docp # NilDoc
                  /\ last'.docp[1].ID # 0
                  /\ last'.docp[1].ID \notin DOMAIN rows
                  /\ last'.docp[1].ID \in DOMAIN rows'
            /\ last'.ret # "ok" =>
                  /\ last'.calls = <<>>
                  /\ rows' = rows
                  /\ store' = store
            /\ last'.ret = "ok" =>
                  /\ last'.docp # NilDoc
                  /\ last'.docp[1].ID \in DOMAIN rows'
                  /\ last'.docp[1].Status \in {"ready", "indexing_failed"}
                  /\ last'.docp[1].Status = "ready" => rows'[last'.docp[1].ID] = last'.docp[1]
            /\ \A args \in CreateArgs, embed \in EmbedOutcomes, add \in WriteOutcomes,
                  dbUpdate \in BOOLEAN :
                  args[1] # 0 =>
                    LET doc == Document(nextID, args[1], args[2], args[3], "ready")
                        idx == IndexDocument(ragEnabled, store, <<doc>>, embed, add)
                        r == DocumentService_Create(ragEnabled, rows, store, nextID,
                                 args[1], args[2], args[3], TRUE, embed, add, dbUpdate)
                        f == DocumentService_Create(ragEnabled, rows, store, nextID,
                                 args[1], args[2], args[3], FALSE, embed, add, dbUpdate)
                    IN  /\ r.ret = "ok"
                        /\ r.docp # NilDoc
                        /\ r.docp[1].Status = IF ragEnabled /\ idx.ret # "ok"
                                               THEN "indexing_failed" ELSE "ready"
                        /\ r.calls = IF ragEnabled THEN idx.calls ELSE <<>>
                        /\ r.store = IF ragEnabled THEN idx.store ELSE store
                        /\ f.ret = "err" /\ f.calls = <<>> /\ f.rows = rows
                        /\ f.store = store
        /\ (last = NoCall /\ last'.op = "IndexDocument") => rows' = rows
      ]_vars

\* A Create whose embedding succeeded and whose add failed: the row is in the
\* table and the document is returned, without error, as indexing_failed.
C26_Witness ==
    /\ last.op = "Create"
    /\ last.ret = "ok"
    /\ Len(last.calls) = 2
    /\ last.docp # NilDoc
    /\ last.docp[1].Status = "indexing_failed"
    /\ last.docp[1].ID \in DOMAIN rows

\* C27 (as stated): whenever DocumentService.Create and DocumentService.Delete
\* of the same document have both returned, in whatever order their steps
\* interleaved, a document whose row is absent from the table has no record in
\* the vector store.
C27_Original ==
    ( /\ DOMAIN proc = {"create", "delete"}
      /\ proc.create.pc = "done"
      /\ proc.delete.pc = "done"
      /\ proc.delete.doc.ID \notin DOMAIN rows ) =>
        RecordsOf(proc.delete.doc.ID, proc.delete.doc.UserID) = {}

\* C28: DeleteDocument(docID, userID) removes no record other than those
\* whose metadata has document_id = docID and user_id = userID: the records
\* of the user's other documents and every record of another user, one with
\* the same document id included, are in the store afterwards as they were,
\* no record is added, and when the enumeration of the ids fails no delete
\* request is sent and the store is left as it was.
C28_DeleteFrame ==
    [][ (ragEnabled /\ last = NoCall /\ last'.op = "DeleteDocument") =>
          LET docID == last'.docID
              userID == last'.userID
          IN  /\ DOMAIN store' \subseteq DOMAIN store
              /\ \A id \in DOMAIN store :
                    ~ ( /\ store[id].metadata.document_id = docID
                        /\ store[id].metadata.user_id = userID ) =>
                        id \in DOMAIN store' /\ store'[id] = store[id]
              /\ DeleteCalls(last'.calls) # {} =>
                    /\ Len(last'.calls) = 2
                    /\ last'.calls[1].api = "get"
                    /\ Range(last'.calls[2].ids) = RecordsOf(docID, userID)
              /\ \A del \in WriteOutcomes :
                    LET failed == DeleteDocument(TRUE, store, docID, userID,
                                                 "rejected", del)
                    IN  /\ DeleteCalls(failed.calls) = {}
                        /\ failed.store = store
                        /\ (docID # 0 /\ userID # 0) => failed.ret = "err"
      ]_vars

\* DeleteDocument(1, 1) removed the records of document 1 of user 1 while the
\* store holds records of user 1's document 2 and of user 2's document 1.
C28_Witness ==
    /\ ragEnabled
    /\ last.op = "DeleteDocument"
    /\ last.docID = 1 /\ last.userID = 1
    /\ last.ret = "ok"
    /\ Len(last.calls) = 2
    /\ RecordsOf(1, 1) = {}
    /\ RecordsOf(2, 1) # {}
    /\ RecordsOf(1, 2) # {}

\* The requests to the chat provider among a sequence of requests.
ProviderCalls(calls) ==
    {i \in 1..Len(calls) : calls[i].api \in {"chat", "chat_stream"}}

\* C29: with RAG enabled, when the embedding of the question fails or returns
\* no vector, or the query of the store fails, Ask and AskStream return the
\* retrieval error: no chat request is sent, no stream is opened, onChunk is
\* not invoked, no chunk is written and no answer returned; a question that
\* passed the three checks reaches the chat provider only after a retrieval
\* that did not fail, or with RAG disabled, and then without any retrieval
\* request; the prompt has no context block exactly when RAG is disabled or
\* the retrieval returned no chunk.
C29_RetrievalFailureStops ==
    [][ (asPc = "start" /\ asPc' # "start" /\ PassesChecks(asArgs)) =>
          /\ asRet' = <<"retrieval failed">> =>
                /\ ragEnabled
                /\ ProviderCalls(asCalls') = {}
                /\ ~asOpened'
                /\ asPc' # "recv"
                /\ asWritten' = <<>>
                /\ asAnswer' = <<>>
                /\ \A i \in 1..Len(asFrames') : asFrames'[i].event # "chunk"
          /\ ProviderCalls(asCalls') # {} =>
                /\ Cardinality(ProviderCalls(asCalls')) = 1
                /\ asCalls'[Len(asCalls')].api \in {"chat", "chat_stream"}
                /\ asCalls'[Len(asCalls')].n = 2
                /\ IF ragEnabled
                   THEN /\ Len(asCalls') = 3
                        /\ asCalls'[1].api = "embed"
                        /\ asCalls'[2].api = "query"
                   ELSE Len(asCalls') = 1
          /\ \A embed \in EmbedOutcomesShort, http \in ReadOutcomes,
                ranking \in Rankings, st \in PromptStores :
                LET failing == ragEnabled /\ (embed # "exact" \/ http # "ok")
                    opened == AskStreamOpen(ragEnabled, st, asArgs, embed, http,
                                            ranking, TRUE)
                    asked == Ask(ragEnabled, st, asArgs, embed, http, ranking, "one")
                    got == RetrieveRelevantChunks(ragEnabled, st, asArgs.userID,
                               TrimSpace(asArgs.question), 5, embed, http, ranking)
                    built == buildMessagesWithContext(ragEnabled, st, asArgs.userID,
                                 TrimSpace(asArgs.question), embed, http, ranking)
                IN  /\ failing <=> opened.err = <<"retrieval failed">>
                    /\ failing <=> asked.err = <<"retrieval failed">>
                    /\ failing <=> ProviderCalls(opened.calls) = {}
                    /\ failing <=> ProviderCalls(asked.calls) = {}
                    /\ failing <=> ~opened.opened
                    /\ failing => asked.answer = <<>> /\ built.messages = <<>>
                    /\ ~failing =>
                          (built.messages[1].Content = <<"systemPrompt">>
                              <=> (~ragEnabled \/ Len(got.chunks) = 0))
      ]_vars

\* A streaming question with RAG enabled whose embedding succeeded and whose
\* query failed: AskStream returned the retrieval error after two requests,
\* without opening a stream.
C29_Witness ==
    /\ ragEnabled
    /\ asArgs.mode = "stream"
    /\ asPc = "returned"
    /\ asRet = <<"retrieval failed">>
    /\ Len(asCalls) = 2
    /\ asCalls[2].api = "query"
    /\ ~asOpened
    /\ asWritten = <<>>

\* C30 (as stated): whatever the lengths of the documents and metadatas
\* matrices of a query response, a metadatas matrix that is empty or whose
\* first list is shorter than the first documents list included, the
\* conversion of RetrieveRelevantChunks returns normally, with chunks or with
\* an error, and reads no position past the end of a list.
C30_Original ==
    (clOp = "convert" /\ clPc = "done") =>
        /\ clOut.ret \in {"ok", "err"}
        /\ Len(clOut.chunks) <= IF Len(clIn.Documents) = 0 THEN 0
                                ELSE Len(clIn.Documents[1])

====
